---------------------------- MODULE Spec2Model ----------------------------
(***************************************************************************)
(* Dynamic pricing layer of the festival drink shop.                       *)
(*                                                                         *)
(* Money is held exactly, as an integer number of 1/10000 euro             *)
(* (UnitsPerEuro).  The strategies multiply a price by decimal factors     *)
(* with two fractional digits and weigh two such products by 0.6 / 0.4:    *)
(* on a price that is a whole number of cents every intermediate value is  *)
(* a whole number of units, so nothing is rounded.  The program computes   *)
(* on IEEE doubles; the model computes the decimal values they stand for.  *)
(*                                                                         *)
(* Time is Date.now() in milliseconds.                                     *)
(***************************************************************************)
EXTENDS Integers, Sequences, FiniteSets, TLC

VARIABLES
    catalog,    \* the products table: id -> row (price, stock, initialstock)
    salesLog,   \* the sale log handed to the pricing functions, oldest first
    now,        \* Date.now()
    strategy,   \* PricingService.strategy
    lastSet,    \* history: the argument of the last setStrategy call, or "none"
    batch,      \* the applyDynamicPricingBatch call in flight, or None
    input,      \* the arguments a strategy is applied to (SpecStrategy), or None
    writes,     \* history: the price updates the products table has accepted
    ret,        \* the call made by the last step and what it returned, or None
    passes,     \* the repricing passes in flight: caller -> what it has read
    shopProducts, \* useShop: the products state, an array of rows
    balance,    \* useShop: the balance state
    cart,       \* useShop: the cart state, a sequence of cart lines
    checkouts,  \* useShop: the checkout calls in flight, each with its closure
    shopLog     \* history: the rows the shop last loaded, the calls made, and
                \* the carts (by generation) a positive total was taken for

shopVars == <<shopProducts, balance, cart, checkouts, shopLog>>

vars == <<catalog, salesLog, now, strategy, lastSet, batch, input, writes, ret,
          passes, shopVars>>

None == [op |-> "none"]

\* no repricing pass is in flight, and the shop is as useShop constructs it:
\* no products loaded yet, a balance of 50 euro, an empty cart
Unmounted ==
    /\ passes = {}
    /\ shopProducts = <<>>
    /\ balance = 50 * (100 * 100)
    /\ cart = <<>>
    /\ checkouts = {}
    /\ shopLog = None

-----------------------------------------------------------------------------
(* Bounds of the model *)

MaxLog == 2          \* records in a sale log the strategies are applied to
MaxSales == 1        \* sales appended to the log of the service
MaxTicks == 1        \* clock advances in a behaviour of the service
MaxWrites == 1       \* price updates of the products table in a behaviour

-----------------------------------------------------------------------------
(* Numbers *)

UnitsPerEuro == 100 * 100

\* the decimal n/d euro, in units
Euro(n, d) == (n * UnitsPerEuro) \div d

\* a price that is a whole number of cents
WholeCents(p) == p % (UnitsPerEuro \div 100) = 0

\* x * (f / 100): multiplication by a decimal literal with two fractional digits
Times(x, f) == (x * f) \div 100

MsPerHour == 60 * 60 * 1000

MathMax(a, b) == IF a >= b THEN a ELSE b

MathMin(a, b) == IF a <= b THEN a ELSE b

\* Number.prototype.toString of a non-negative integer
Digit(d) == <<"0", "1", "2", "3", "4", "5", "6", "7", "8", "9">>[d + 1]

RECURSIVE IdToString(_)
IdToString(n) ==
    IF n < 10 THEN Digit(n) ELSE IdToString(n \div 10) \o Digit(n % 10)

\* an optional argument: <<>> when it is left undefined, <<v>> when v is passed
Undefined == <<>>

Some(v) == <<v>>

\* a default parameter value applies when the argument is undefined
OrDefault(arg, dflt) == IF arg = Undefined THEN dflt ELSE arg[1]

\* a / b of two non-negative integers as a double: finite, Infinity or NaN
Divide(a, b) ==
    IF b # 0 THEN [kind |-> "fin", num |-> a, den |-> b]
    ELSE IF a = 0 THEN [kind |-> "NaN", num |-> 0, den |-> 0]
    ELSE [kind |-> "Infinity", num |-> 1, den |-> 0]

\* q <= n/10 and q >= n/10 for a quotient q of Divide (den > 0 when finite);
\* every comparison with NaN is false
LessEq(q, n) ==
    /\ q.kind = "fin"
    /\ q.num * 10 <= n * q.den

GreaterEq(q, n) ==
    \/ q.kind = "Infinity"
    \/ q.kind = "fin" /\ q.num * 10 >= n * q.den

RECURSIVE SumQuantity(_)
SumQuantity(sales) ==
    IF sales = <<>> THEN 0
    ELSE SumQuantity(SubSeq(sales, 1, Len(sales) - 1)) + sales[Len(sales)].quantity

-----------------------------------------------------------------------------
(* PricingStrategy.ts *)

DefaultWindowHours == 24

calculateDemandFactor(recentSales) ==
    IF recentSales >= 10 THEN 130
    ELSE IF recentSales >= 5 THEN 115
    ELSE IF recentSales >= 2 THEN 100
    ELSE IF recentSales >= 1 THEN 95
    ELSE 80

\* mutant: the window test is strict, a sale of age exactly timeWindow is dropped
RecentSales_StrictWindow(product, salesHistory, timeWindow, clock) ==
    SelectSeq(salesHistory,
              LAMBDA sale :
                  /\ sale.productId = IdToString(product.id)
                  /\ clock - sale.timestamp < timeWindow)

RecentSales(product, salesHistory, timeWindow, clock) ==
    SelectSeq(salesHistory,
              LAMBDA sale :
                  /\ sale.productId = IdToString(product.id)
                  /\ clock - sale.timestamp <= timeWindow)

\* mutant: minPrice is basePrice + 0.7 instead of basePrice * 0.7
DemandBasedPricing_calculatePrice_PlusMin(product, salesHistory, timeWindowHours, clock) ==
    LET timeWindow == OrDefault(timeWindowHours, DefaultWindowHours) * MsPerHour
        recentSales ==
            SelectSeq(salesHistory,
                      LAMBDA sale :
                          /\ sale.productId = IdToString(product.id)
                          /\ clock - sale.timestamp <= timeWindow)
        basePrice == product.price
        newPrice == Times(basePrice, calculateDemandFactor(SumQuantity(recentSales)))
        minPrice == basePrice + Euro(70, 100)
        maxPrice == Times(basePrice, 150)
    IN  MathMax(minPrice, MathMin(maxPrice, newPrice))

DemandBasedPricing_calculatePrice(product, salesHistory, timeWindowHours, clock) ==
    LET timeWindow == OrDefault(timeWindowHours, DefaultWindowHours) * MsPerHour
        recentSales == RecentSales(product, salesHistory, timeWindow, clock)
        totalRecentSales == SumQuantity(recentSales)
        basePrice == product.price
        demandFactor == calculateDemandFactor(totalRecentSales)
        newPrice == Times(basePrice, demandFactor)
        minPrice == Times(basePrice, 70)
        maxPrice == Times(basePrice, 150)
    IN  MathMax(minPrice, MathMin(maxPrice, newPrice))

\* mutant: the second test is stockRatio < 0.3
SupplyStockFactor_Strict(stockRatio) ==
    IF LessEq(stockRatio, 1) THEN 120
    ELSE IF LessEq(stockRatio, 3) /\ ~GreaterEq(stockRatio, 3) THEN 110
    ELSE IF GreaterEq(stockRatio, 8) THEN 95
    ELSE 100

SupplyStockFactor(stockRatio) ==
    IF LessEq(stockRatio, 1) THEN 120
    ELSE IF LessEq(stockRatio, 3) THEN 110
    ELSE IF GreaterEq(stockRatio, 8) THEN 95
    ELSE 100

SupplyBasedPricing_calculatePrice(product) ==
    LET stockRatio == Divide(product.stock, product.initialstock)
        basePrice == product.price
        stockFactor == SupplyStockFactor(stockRatio)
        newPrice == Times(basePrice, stockFactor)
        minPrice == Times(basePrice, 80)
        maxPrice == Times(basePrice, 140)
    IN  MathMax(minPrice, MathMin(maxPrice, newPrice))

\* mutant: the weights are swapped, 40% demand and 60% supply
HybridPricing_calculatePrice_Swapped(product, salesHistory, timeWindowHours, clock) ==
    LET window == OrDefault(timeWindowHours, DefaultWindowHours)
        demandPrice ==
            DemandBasedPricing_calculatePrice(product, salesHistory, Some(window), clock)
        supplyPrice == SupplyBasedPricing_calculatePrice(product)
        hybridPrice == Times(demandPrice, 40) + Times(supplyPrice, 60)
        basePrice == product.price
    IN  MathMax(Times(basePrice, 50), MathMin(Times(basePrice, 200), hybridPrice))

HybridPricing_calculatePrice(product, salesHistory, timeWindowHours, clock) ==
    LET window == OrDefault(timeWindowHours, DefaultWindowHours)
        demandPrice ==
            DemandBasedPricing_calculatePrice(product, salesHistory, Some(window), clock)
        supplyPrice == SupplyBasedPricing_calculatePrice(product)
        hybridPrice == Times(demandPrice, 60) + Times(supplyPrice, 40)
        basePrice == product.price
        minPrice == Times(basePrice, 50)
        maxPrice == Times(basePrice, 200)
    IN  MathMax(minPrice, MathMin(maxPrice, hybridPrice))

\* strategy.calculatePrice(product, salesHistory, timeWindowHours) by dynamic
\* dispatch on the strategy object
Strategies == {"Demand", "Supply", "Hybrid"}

StrategyPrice(s, product, salesHistory, timeWindowHours, clock) ==
    CASE s = "Demand" ->
            DemandBasedPricing_calculatePrice(product, salesHistory, timeWindowHours, clock)
      [] s = "Supply" -> SupplyBasedPricing_calculatePrice(product)
      [] s = "Hybrid" ->
            HybridPricing_calculatePrice(product, salesHistory, timeWindowHours, clock)

-----------------------------------------------------------------------------
(* Inputs *)

ProductIds == {1, 2}

ProductName(id) == IF id = 1 THEN "Beer" ELSE "Cola"

\* (stock, initialstock): ratios 0.05, 0.1, 0.2, 0.3, 0.35, 0.5, 0.75, 0.8,
\* 0.85, 1, and the two quotients by zero
StockLevels ==
    { <<1, 20>>, <<2, 20>>, <<4, 20>>, <<6, 20>>, <<7, 20>>, <<10, 20>>,
      <<15, 20>>, <<16, 20>>, <<17, 20>>, <<100, 100>>, <<0, 0>>, <<5, 0>> }

StrategyPrices == { Euro(0, 100), Euro(20, 100), Euro(300, 100) }

StrategyProducts ==
    { [id |-> i, name |-> ProductName(i), price |-> p,
       stock |-> sl[1], initialstock |-> sl[2]] :
        i \in ProductIds, p \in StrategyPrices, sl \in StockLevels }

Quantities == {1, 4, 5}

\* the unit price the sales of the model are recorded at (the caller passes it)
SalePrice == Euro(200, 100)

SaleRecord(pid, q, price, t) ==
    [productId |-> pid, quantity |-> q, revenue |-> q * price,
     timestamp |-> t, priceAtSale |-> price]

Sorted(log) ==
    \A i \in 1..(Len(log) - 1) : log[i].timestamp <= log[i + 1].timestamp

\* the strategies are applied at hour 36 to logs of sales made at hours 0
\* and 12, with windows of 12, 24 (the default) and 48 hours
StrategyNow == 36 * MsPerHour

StrategyRecords ==
    { SaleRecord(IdToString(i), q, SalePrice, h * MsPerHour) :
        i \in ProductIds, q \in Quantities, h \in {0, 12} }

StrategyLogs ==
    { log \in UNION { [1..n -> StrategyRecords] : n \in 0..MaxLog } : Sorted(log) }

StrategyWindows == {Some(12), Some(48), Undefined}

-----------------------------------------------------------------------------
(* The strategies as pure functions: SpecStrategy *)

InitialCatalog ==
    [i \in ProductIds |->
        IF i = 1
        THEN [id |-> 1, name |-> ProductName(1), price |-> Euro(10, 100),
              stock |-> 17, initialstock |-> 20]
        ELSE [id |-> 2, name |-> ProductName(2), price |-> Euro(20, 100),
              stock |-> 100, initialstock |-> 100]]

StrategyInit ==
    /\ Unmounted
    /\ catalog = InitialCatalog
    /\ salesLog \in StrategyLogs
    /\ now = StrategyNow
    /\ strategy = "Hybrid"
    /\ lastSet = "none"
    /\ batch = None
    /\ input \in [product : StrategyProducts, window : StrategyWindows]
    /\ writes = 0
    /\ ret = None

DemandCall ==
    /\ ret' = [op |-> "Demand",
               price |-> DemandBasedPricing_calculatePrice(
                             input.product, salesLog, input.window, now)]
    /\ UNCHANGED <<passes, shopVars, catalog, salesLog, now, strategy, lastSet, batch, input, writes>>

\* the sale log and the window are passed and ignored
SupplyCall ==
    /\ ret' = [op |-> "Supply",
               price |-> SupplyBasedPricing_calculatePrice(input.product)]
    /\ UNCHANGED <<passes, shopVars, catalog, salesLog, now, strategy, lastSet, batch, input, writes>>

HybridCall ==
    /\ ret' = [op |-> "Hybrid",
               price |-> HybridPricing_calculatePrice(
                             input.product, salesLog, input.window, now)]
    /\ UNCHANGED <<passes, shopVars, catalog, salesLog, now, strategy, lastSet, batch, input, writes>>

StrategyNext ==
    \/ DemandCall
    \/ SupplyCall
    \/ HybridCall

SpecStrategy == StrategyInit /\ [][StrategyNext]_vars

-----------------------------------------------------------------------------
(* database/products.ts: the catalog write *)

\* what the awaited supabase update can do: succeed, answer with an error,
\* or reject (the promise throws)
WriteOutcomes == {"ok", "error", "rejected"}

\* mutant: the update lacks its .eq("id", productId) filter and reprices every row
updateProductPrice_NoFilter(cat, productId, newPrice, outcome) ==
    IF outcome = "ok"
    THEN [i \in DOMAIN cat |-> [cat[i] EXCEPT !.price = newPrice]]
    ELSE cat

\* mutant: the update also resets the stock column of the row
updateProductPrice_AlsoStock(cat, productId, newPrice, outcome) ==
    IF outcome = "ok"
    THEN [cat EXCEPT ![productId].price = newPrice, ![productId].stock = 0]
    ELSE cat

\* the products table after update({ price: newPrice }).eq("id", productId)
updateProductPrice(cat, productId, newPrice, outcome) ==
    IF outcome = "ok" /\ productId \in DOMAIN cat
    THEN [cat EXCEPT ![productId].price = newPrice]
    ELSE cat

-----------------------------------------------------------------------------
(* PricingService.ts *)

DefaultStrategy == "Hybrid"

\* mutant: the service always prices with the Hybrid strategy
PricingService_calculatePrice_AlwaysHybrid(s, product, salesHistory, timeWindowHours, clock) ==
    HybridPricing_calculatePrice(product, salesHistory, timeWindowHours, clock)

PricingService_calculatePrice(s, product, salesHistory, timeWindowHours, clock) ==
    StrategyPrice(s, product, salesHistory, timeWindowHours, clock)

Abs(x) == IF x < 0 THEN -x ELSE x

\* mutant: the threshold test is strict, priceChange > minPriceChange
PricingService_applyDynamicPricing_Strict(s, product, salesHistory, minPriceChange, clock, outcome) ==
    LET newPrice == PricingService_calculatePrice(s, product, salesHistory, Undefined, clock)
        priceChange == Abs(newPrice - product.price)
    IN  IF priceChange > OrDefault(minPriceChange, Euro(1, 100))
        THEN [newPrice |-> newPrice, wrote |-> TRUE, outcome |-> outcome,
              raised |-> outcome = "rejected",
              returned |-> CASE outcome = "ok" -> Some(newPrice)
                             [] outcome = "error" -> Some(product.price)
                             [] outcome = "rejected" -> Undefined]
        ELSE [newPrice |-> newPrice, wrote |-> FALSE, outcome |-> "none",
              raised |-> FALSE, returned |-> Some(product.price)]

\* mutant: the new price is returned although the write reported a failure
PricingService_applyDynamicPricing_KeepsNew(s, product, salesHistory, minPriceChange, clock, outcome) ==
    LET newPrice == PricingService_calculatePrice(s, product, salesHistory, Undefined, clock)
        priceChange == Abs(newPrice - product.price)
    IN  IF priceChange >= OrDefault(minPriceChange, Euro(1, 100))
        THEN [newPrice |-> newPrice, wrote |-> TRUE, outcome |-> outcome,
              raised |-> outcome = "rejected",
              returned |-> IF outcome = "rejected" THEN Undefined ELSE Some(newPrice)]
        ELSE [newPrice |-> newPrice, wrote |-> FALSE, outcome |-> "none",
              raised |-> FALSE, returned |-> Some(product.price)]

\* applyDynamicPricing(product, salesHistory, minPriceChange) when the write,
\* if one is made, ends as outcome: the recommendation, whether
\* updateProductPrice was called, whether the call threw, and the value
\* returned (none when it threw)
PricingService_applyDynamicPricing(s, product, salesHistory, minPriceChange, clock, outcome) ==
    LET newPrice == PricingService_calculatePrice(s, product, salesHistory, Undefined, clock)
        priceChange == Abs(newPrice - product.price)
    IN  IF priceChange >= OrDefault(minPriceChange, Euro(1, 100))
        THEN [newPrice |-> newPrice, wrote |-> TRUE, outcome |-> outcome,
              raised |-> outcome = "rejected",
              returned |-> CASE outcome = "ok" -> Some(newPrice)
                             [] outcome = "error" -> Some(product.price)
                             [] outcome = "rejected" -> Undefined]
        ELSE [newPrice |-> newPrice, wrote |-> FALSE, outcome |-> "none",
              raised |-> FALSE, returned |-> Some(product.price)]

\* the call made a write and the products table accepted it
Accepted(call) == call.wrote /\ call.outcome = "ok"

\* the catalog after that call
CatalogAfter(cat, product, call) ==
    IF call.wrote
    THEN updateProductPrice(cat, product.id, call.newPrice, call.outcome)
    ELSE cat

\* mutant: the stock level is classified with < in place of <=
getPricingAnalysis_StrictStock(s, product, salesHistory, clock) ==
    LET suggestedPrice == PricingService_calculatePrice(s, product, salesHistory, Undefined, clock)
        priceChange == suggestedPrice - product.price
        \* (priceChange / product.price) * 100
        priceChangePercent ==
            IF product.price # 0
            THEN [kind |-> "fin", num |-> priceChange * 100, den |-> product.price]
            ELSE IF priceChange = 0 THEN [kind |-> "NaN", num |-> 0, den |-> 0]
            ELSE [kind |-> "Infinity", num |-> priceChange, den |-> 0]
        recentSales == RecentSales(product, salesHistory, 24 * MsPerHour, clock)
        totalRecentSales == SumQuantity(recentSales)
        demandLevel ==
            IF totalRecentSales >= 5 THEN "High"
            ELSE IF totalRecentSales >= 2 THEN "Medium"
            ELSE "Low"
        stockRatio == Divide(product.stock, product.initialstock)
        stockLevel ==
            IF LessEq(stockRatio, 3) /\ ~GreaterEq(stockRatio, 3) THEN "Low"
            ELSE IF LessEq(stockRatio, 7) /\ ~GreaterEq(stockRatio, 7) THEN "Medium"
            ELSE "High"
    IN  [currentPrice |-> product.price, suggestedPrice |-> suggestedPrice,
         priceChange |-> priceChange, priceChangePercent |-> priceChangePercent,
         demandLevel |-> demandLevel, stockLevel |-> stockLevel]

getPricingAnalysis(s, product, salesHistory, clock) ==
    LET suggestedPrice == PricingService_calculatePrice(s, product, salesHistory, Undefined, clock)
        priceChange == suggestedPrice - product.price
        \* (priceChange / product.price) * 100
        priceChangePercent ==
            IF product.price # 0
            THEN [kind |-> "fin", num |-> priceChange * 100, den |-> product.price]
            ELSE IF priceChange = 0 THEN [kind |-> "NaN", num |-> 0, den |-> 0]
            ELSE [kind |-> "Infinity", num |-> priceChange, den |-> 0]
        recentSales == RecentSales(product, salesHistory, 24 * MsPerHour, clock)
        totalRecentSales == SumQuantity(recentSales)
        demandLevel ==
            IF totalRecentSales >= 5 THEN "High"
            ELSE IF totalRecentSales >= 2 THEN "Medium"
            ELSE "Low"
        stockRatio == Divide(product.stock, product.initialstock)
        stockLevel ==
            IF LessEq(stockRatio, 3) THEN "Low"
            ELSE IF LessEq(stockRatio, 7) THEN "Medium"
            ELSE "High"
    IN  [currentPrice |-> product.price, suggestedPrice |-> suggestedPrice,
         priceChange |-> priceChange, priceChangePercent |-> priceChangePercent,
         demandLevel |-> demandLevel, stockLevel |-> stockLevel]

-----------------------------------------------------------------------------
(* The pricing service over the catalog and the sale log: Spec *)

TickMs == 25 * MsPerHour

ServiceQuantities == {1, 5}

ServiceWindows == {Some(12), Undefined}

MinPriceChanges == {Undefined, Some(Euro(5, 1000))}

\* the product arrays handed to applyDynamicPricingBatch: the rows of the
\* catalog as the caller read them, in either order
BatchOrders == { <<1, 2>>, <<2, 1>> }

Init ==
    /\ Unmounted
    /\ catalog = InitialCatalog
    /\ salesLog = <<>>
    /\ now = 0
    /\ strategy = DefaultStrategy
    /\ lastSet = "none"
    /\ batch = None
    /\ input = None
    /\ writes = 0
    /\ ret = None

\* a sale is appended to the log (database/sales.ts addSaleRecord); the log
\* handed to the service is the history read back, oldest first
AddSaleRecord(id, q) ==
    /\ Len(salesLog) < MaxSales
    /\ salesLog' = Append(salesLog,
                          SaleRecord(IdToString(id), q, SalePrice, now))
    /\ ret' = None
    /\ UNCHANGED <<passes, shopVars, catalog, now, strategy, lastSet, batch, input, writes>>

\* time passes: more than the default window of the strategies
Tick ==
    /\ now + TickMs <= MaxTicks * TickMs
    /\ now' = now + TickMs
    /\ ret' = None
    /\ UNCHANGED <<passes, shopVars, catalog, salesLog, strategy, lastSet, batch, input, writes>>

SetStrategy(s) ==
    /\ strategy' = s
    /\ lastSet' = s
    /\ ret' = None
    /\ UNCHANGED <<passes, shopVars, catalog, salesLog, now, batch, input, writes>>

CalculatePrice(id, window) ==
    LET product == catalog[id]
    IN  /\ WholeCents(product.price)
        /\ ret' = [op |-> "calculatePrice", product |-> product, window |-> window,
                   price |-> PricingService_calculatePrice(
                                 strategy, product, salesLog, window, now)]
        /\ UNCHANGED <<passes, shopVars, catalog, salesLog, now, strategy, lastSet, batch, input, writes>>

ApplyDynamicPricing(id, minPriceChange, outcome) ==
    LET product == catalog[id]
        call == PricingService_applyDynamicPricing(
                    strategy, product, salesLog, minPriceChange, now, outcome)
    IN  /\ WholeCents(product.price)
        /\ Accepted(call) => writes < MaxWrites
        /\ catalog' = CatalogAfter(catalog, product, call)
        /\ writes' = IF Accepted(call) THEN writes + 1 ELSE writes
        /\ ret' = [op |-> "applyDynamicPricing", product |-> product,
                   minPriceChange |-> minPriceChange, call |-> call,
                   before |-> catalog]
        /\ UNCHANGED <<passes, shopVars, salesLog, now, strategy, lastSet, batch, input>>

GetPricingAnalysis(id) ==
    LET product == catalog[id]
    IN  /\ WholeCents(product.price)
        /\ ret' = [op |-> "getPricingAnalysis", product |-> product,
                   analysis |-> getPricingAnalysis(strategy, product, salesLog, now)]
        /\ UNCHANGED <<passes, shopVars, catalog, salesLog, now, strategy, lastSet, batch, input, writes>>

\* applyDynamicPricingBatch(products, salesHistory) is called: the array is
\* copied, the loop stands before its first product
BatchStart(order) ==
    /\ batch = None
    /\ \A k \in 1..Len(order) : WholeCents(catalog[order[k]].price)
    /\ LET products == [k \in 1..Len(order) |-> catalog[order[k]]]
       IN  batch' = [op |-> "batch", products |-> products, logLen |-> Len(salesLog),
                     updatedProducts |-> products, i |-> 1, calls |-> <<>>]
    /\ ret' = None
    /\ UNCHANGED <<passes, shopVars, catalog, salesLog, now, strategy, lastSet, input, writes>>

\* one turn of the loop: applyDynamicPricing on updatedProducts[i] with the
\* log the batch was called with; after the last turn the array is returned,
\* and a call that throws ends the batch
BatchStep(outcome) ==
    /\ batch # None
    /\ LET product == batch.updatedProducts[batch.i]
           salesHistory == SubSeq(salesLog, 1, batch.logLen)
           call == PricingService_applyDynamicPricing(
                       strategy, product, salesHistory, Undefined, now, outcome)
           calls == Append(batch.calls, [id |-> product.id, call |-> call])
           updatedProducts ==
               IF call.raised THEN batch.updatedProducts
               ELSE [batch.updatedProducts EXCEPT ![batch.i].price = call.returned[1]]
           done == call.raised \/ batch.i = Len(batch.updatedProducts)
       IN  /\ Accepted(call) => writes < MaxWrites
           /\ catalog' = CatalogAfter(catalog, product, call)
           /\ writes' = IF Accepted(call) THEN writes + 1 ELSE writes
           /\ batch' = IF done THEN None
                       ELSE [batch EXCEPT !.updatedProducts = updatedProducts,
                                          !.i = batch.i + 1, !.calls = calls]
           /\ ret' = IF done
                     THEN [op |-> "applyDynamicPricingBatch",
                           products |-> batch.products, raised |-> call.raised,
                           returned |-> IF call.raised THEN Undefined
                                        ELSE Some(updatedProducts),
                           calls |-> calls]
                     ELSE None
    /\ UNCHANGED <<passes, shopVars, salesLog, now, strategy, lastSet, input>>

\* the single calls of the service, between sales, clock advances and
\* strategy changes
Next ==
    \/ \E id \in ProductIds, q \in ServiceQuantities : AddSaleRecord(id, q)
    \/ Tick
    \/ \E s \in Strategies : SetStrategy(s)
    \/ \E id \in ProductIds, window \in ServiceWindows : CalculatePrice(id, window)
    \/ \E id \in ProductIds, m \in MinPriceChanges, outcome \in WriteOutcomes :
           ApplyDynamicPricing(id, m, outcome)
    \/ \E id \in ProductIds : GetPricingAnalysis(id)

Spec == Init /\ [][Next]_vars

\* a batch call, its turns interleaved with sales, strategy changes and the
\* single repricing calls of other callers
BatchNext ==
    \/ \E id \in ProductIds, q \in ServiceQuantities : AddSaleRecord(id, q)
    \/ \E s \in Strategies : SetStrategy(s)
    \/ \E id \in ProductIds, outcome \in WriteOutcomes :
           ApplyDynamicPricing(id, Undefined, outcome)
    \/ \E order \in BatchOrders : BatchStart(order)
    \/ \E outcome \in WriteOutcomes : BatchStep(outcome)

SpecBatch == Init /\ [][BatchNext]_vars

-----------------------------------------------------------------------------
(* getPricingAnalysis as a pure function of product, log and strategy:
   SpecAnalysis *)

\* a service holding any of the three strategies, any product, any log
AnalysisInit ==
    /\ Unmounted
    /\ catalog = InitialCatalog
    /\ salesLog \in StrategyLogs
    /\ now = StrategyNow
    /\ strategy \in Strategies
    /\ lastSet = strategy
    /\ batch = None
    /\ input \in [product : StrategyProducts, window : {Undefined}]
    /\ writes = 0
    /\ ret = None

AnalysisCall ==
    /\ ret' = [op |-> "Analysis",
               analysis |-> getPricingAnalysis(strategy, input.product, salesLog, now)]
    /\ UNCHANGED <<passes, shopVars, catalog, salesLog, now, strategy, lastSet, batch, input, writes>>

AnalysisPriceCall ==
    /\ ret' = [op |-> "Price",
               price |-> PricingService_calculatePrice(
                             strategy, input.product, salesLog, input.window, now)]
    /\ UNCHANGED <<passes, shopVars, catalog, salesLog, now, strategy, lastSet, batch, input, writes>>

AnalysisNext ==
    \/ AnalysisCall
    \/ AnalysisPriceCall

SpecAnalysis == AnalysisInit /\ [][AnalysisNext]_vars

-----------------------------------------------------------------------------
(* Quotients of the analytics: exact fractions in lowest terms.  A quotient
   is [kind, num, den]: kind "fin" with den > 0, or "NaN" (0 / 0), or
   "Infinity" (x / 0, x > 0). *)

RECURSIVE GCD(_, _)
GCD(a, b) == IF b = 0 THEN a ELSE GCD(b, a % b)

\* n / d of two integers, d >= 0
Quotient(n, d) ==
    IF d = 0
    THEN IF n = 0 THEN [kind |-> "NaN", num |-> 0, den |-> 0]
         ELSE [kind |-> "Infinity", num |-> 1, den |-> 0]
    ELSE LET g == GCD(IF n < 0 THEN -n ELSE n, d)
         IN  [kind |-> "fin", num |-> n \div g, den |-> d \div g]

\* the number n
Number(n) == Quotient(n, 1)

\* ((x - y) / y) * 100 of two finite quotients, y > 0
PercentChange(x, y) ==
    Quotient((x.num * y.den - y.num * x.den) * 100, x.den * y.num)

-----------------------------------------------------------------------------
(* Array.prototype functions the analytics use *)

RECURSIVE SumRevenue(_)
SumRevenue(sales) ==
    IF sales = <<>> THEN 0
    ELSE SumRevenue(SubSeq(sales, 1, Len(sales) - 1)) + sales[Len(sales)].revenue

RECURSIVE SumPriceAtSale(_)
SumPriceAtSale(sales) ==
    IF sales = <<>> THEN 0
    ELSE SumPriceAtSale(SubSeq(sales, 1, Len(sales) - 1)) + sales[Len(sales)].priceAtSale

\* salesHistory.filter((sale) => sale.productId === productId)
SalesOf(productId, salesHistory) ==
    LET IsOfProduct(sale) == sale.productId = productId
    IN  SelectSeq(salesHistory, IsOfProduct)

\* [...new Set(ids)]: the distinct values in the order of their first occurrence
RECURSIVE SetOrder(_)
SetOrder(ids) ==
    IF ids = <<>> THEN <<>>
    ELSE LET front == SetOrder(SubSeq(ids, 1, Len(ids) - 1))
             last == ids[Len(ids)]
         IN  IF \E i \in DOMAIN front : front[i] = last
             THEN front
             ELSE Append(front, last)

\* array.slice(0, n) and array.slice(-n)
SliceFirst(array, n) == SubSeq(array, 1, MathMin(n, Len(array)))

SliceLast(array, n) == SubSeq(array, MathMax(1, Len(array) - n + 1), Len(array))

\* mutant: a sort that is not stable: equal totals change places
RECURSIVE SortByTotalSoldDesc_Unstable(_)
SortByTotalSoldDesc_Unstable(stats) ==
    IF stats = <<>> THEN <<>>
    ELSE LET front == SortByTotalSoldDesc_Unstable(SubSeq(stats, 1, Len(stats) - 1))
             last == stats[Len(stats)]
             before == { i \in DOMAIN front : front[i].totalSold > last.totalSold }
             k == Cardinality(before)
         IN  SubSeq(front, 1, k) \o <<last>> \o SubSeq(front, k + 1, Len(front))

\* array.sort((a, b) => b.totalSold - a.totalSold): descending, stable
RECURSIVE SortByTotalSoldDesc(_)
SortByTotalSoldDesc(stats) ==
    IF stats = <<>> THEN <<>>
    ELSE LET front == SortByTotalSoldDesc(SubSeq(stats, 1, Len(stats) - 1))
             last == stats[Len(stats)]
             before == { i \in DOMAIN front : front[i].totalSold >= last.totalSold }
             k == Cardinality(before)
         IN  SubSeq(front, 1, k) \o <<last>> \o SubSeq(front, k + 1, Len(front))

-----------------------------------------------------------------------------
(* services/analytics/AnalyticsService *)

\* mutant: the log is not filtered by product
AnalyticsService_calculateProductStats_AllSales(productId, salesHistory) ==
    LET productSales == salesHistory
        totalSold == SumQuantity(productSales)
        totalRevenue == SumRevenue(productSales)
    IN  [productId |-> productId,
         totalSold |-> totalSold,
         totalRevenue |-> totalRevenue,
         averagePrice |-> IF totalSold > 0 THEN Quotient(totalRevenue, totalSold)
                          ELSE Number(0),
         priceHistory |-> [i \in DOMAIN productSales |->
                              [price |-> productSales[i].priceAtSale,
                               timestamp |-> productSales[i].timestamp]]]

AnalyticsService_calculateProductStats(productId, salesHistory) ==
    LET productSales == SalesOf(productId, salesHistory)
        totalSold == SumQuantity(productSales)
        totalRevenue == SumRevenue(productSales)
    IN  [productId |-> productId,
         totalSold |-> totalSold,
         totalRevenue |-> totalRevenue,
         averagePrice |-> IF totalSold > 0 THEN Quotient(totalRevenue, totalSold)
                          ELSE Number(0),
         priceHistory |-> [i \in DOMAIN productSales |->
                              [price |-> productSales[i].priceAtSale,
                               timestamp |-> productSales[i].timestamp]]]

\* prices.reduce((sum, price, i) => i === 0 ? 0 : sum + (price - prices[i-1])^2, 0)
RECURSIVE SumSquaredChanges(_)
SumSquaredChanges(prices) ==
    IF Len(prices) < 2 THEN 0
    ELSE LET n == Len(prices)
             d == prices[n] - prices[n - 1]
         IN  SumSquaredChanges(SubSeq(prices, 1, n - 1)) + d * d

\* the volatility of one product.  Math.sqrt is not evaluated: the value is
\* held as its radicand, the quotient whose square root it is (0 for 0)
ProductVolatility(product, salesHistory) ==
    LET productSales == SalesOf(IdToString(product.id), salesHistory)
        prices == [i \in DOMAIN productSales |-> productSales[i].priceAtSale]
    IN  IF Len(productSales) < 2 THEN Number(0)
        ELSE Quotient(SumSquaredChanges(prices), Len(prices) - 1)

\* mutant of the market volatility: products without a change are left out
AnalyticsService_calculateMarketVolatility_Skip(salesHistory, products) ==
    LET all == [i \in DOMAIN products |-> ProductVolatility(products[i], salesHistory)]
        IsChange(r) == r.num # 0
        priceChanges == SelectSeq(all, IsChange)
    IN  IF Len(priceChanges) = 0
        THEN [kind |-> "NaN", roots |-> <<>>]
        ELSE [kind |-> "mean", roots |-> priceChanges]

\* the sum of the products' volatilities divided by their number: the mean
\* of the square roots of `roots`, or 0 / 0 for an empty product array
AnalyticsService_calculateMarketVolatility(salesHistory, products) ==
    LET priceChanges ==
            [i \in DOMAIN products |-> ProductVolatility(products[i], salesHistory)]
    IN  IF Len(priceChanges) = 0
        THEN [kind |-> "NaN", roots |-> <<>>]
        ELSE [kind |-> "mean", roots |-> priceChanges]

\* mutant: the recent group is the last 10 records before the first group
AnalyticsService_calculatePriceInflation_Disjoint(salesHistory) ==
    LET rest == SubSeq(salesHistory, MathMin(10, Len(salesHistory)) + 1, Len(salesHistory))
        recentSales == IF rest = <<>> THEN SliceLast(salesHistory, 10) ELSE SliceLast(rest, 10)
        oldSales == SliceFirst(salesHistory, 10)
    IN  IF Len(recentSales) = 0 \/ Len(oldSales) = 0 THEN Number(0)
        ELSE LET recentAvgPrice == Quotient(SumPriceAtSale(recentSales), Len(recentSales))
                 oldAvgPrice == Quotient(SumPriceAtSale(oldSales), Len(oldSales))
             IN  IF oldAvgPrice.num > 0
                 THEN PercentChange(recentAvgPrice, oldAvgPrice)
                 ELSE Number(0)

AnalyticsService_calculatePriceInflation(salesHistory) ==
    LET recentSales == SliceLast(salesHistory, 10)
        oldSales == SliceFirst(salesHistory, 10)
    IN  IF Len(recentSales) = 0 \/ Len(oldSales) = 0 THEN Number(0)
        ELSE LET recentAvgPrice == Quotient(SumPriceAtSale(recentSales), Len(recentSales))
                 oldAvgPrice == Quotient(SumPriceAtSale(oldSales), Len(oldSales))
             IN  IF oldAvgPrice.num > 0
                 THEN PercentChange(recentAvgPrice, oldAvgPrice)
                 ELSE Number(0)

\* the metrics of an empty log: every field the number 0 (the volatility 0
\* held as the mean of the one root 0)
ZeroMetrics ==
    [totalRevenue |-> 0, totalTransactions |-> 0,
     averageTransactionValue |-> Number(0),
     marketVolatility |-> [kind |-> "mean", roots |-> <<Number(0)>>],
     priceInflation |-> Number(0)]

\* mutant: the average transaction value divides by the units sold
AnalyticsService_calculateEconomicMetrics_PerUnit(salesHistory, products) ==
    IF Len(salesHistory) = 0 THEN ZeroMetrics
    ELSE [totalRevenue |-> SumRevenue(salesHistory),
          totalTransactions |-> Len(salesHistory),
          averageTransactionValue |->
              Quotient(SumRevenue(salesHistory), SumQuantity(salesHistory)),
          marketVolatility |->
              AnalyticsService_calculateMarketVolatility(salesHistory, products),
          priceInflation |-> AnalyticsService_calculatePriceInflation(salesHistory)]

AnalyticsService_calculateEconomicMetrics(salesHistory, products) ==
    IF Len(salesHistory) = 0 THEN ZeroMetrics
    ELSE LET totalRevenue == SumRevenue(salesHistory)
             totalTransactions == Len(salesHistory)
         IN  [totalRevenue |-> totalRevenue,
              totalTransactions |-> totalTransactions,
              averageTransactionValue |-> Quotient(totalRevenue, totalTransactions),
              marketVolatility |->
                  AnalyticsService_calculateMarketVolatility(salesHistory, products),
              priceInflation |-> AnalyticsService_calculatePriceInflation(salesHistory)]

AnalyticsService_getTopProducts(salesHistory) ==
    LET productIds == SetOrder([i \in DOMAIN salesHistory |-> salesHistory[i].productId])
        stats == [i \in DOMAIN productIds |->
                     AnalyticsService_calculateProductStats(productIds[i], salesHistory)]
    IN  SliceFirst(SortByTotalSoldDesc(stats), 5)

\* hourlyData after recentSales.forEach: hour offset -> summed quantity and revenue
RECURSIVE HourlyData(_, _)
HourlyData(recentSales, clock) ==
    IF recentSales = <<>> THEN <<>>
    ELSE LET n == Len(recentSales)
             sale == recentSales[n]
             front == HourlyData(SubSeq(recentSales, 1, n - 1), clock)
             hour == (clock - sale.timestamp) \div MsPerHour
             old == IF hour \in DOMAIN front THEN front[hour]
                    ELSE [sales |-> 0, revenue |-> 0]
         IN  [h \in DOMAIN front \cup {hour} |->
                 IF h = hour
                 THEN [sales |-> old.sales + sale.quantity,
                       revenue |-> old.revenue + sale.revenue]
                 ELSE front[h]]

\* Object.entries(hourlyData).map(...).sort((a, b) => a.hour - b.hour)
RECURSIVE HourlyEntries(_, _)
HourlyEntries(hourlyData, hours) ==
    IF hours = {} THEN <<>>
    ELSE LET last == CHOOSE h \in hours : \A g \in hours : g <= h
         IN  Append(HourlyEntries(hourlyData, hours \ {last}),
                    [hour |-> last, sales |-> hourlyData[last].sales,
                     revenue |-> hourlyData[last].revenue])

\* mutant: the window test is strict
AnalyticsService_getSalesTrends_StrictWindow(salesHistory, timeWindowHours, clock) ==
    LET timeWindow == OrDefault(timeWindowHours, DefaultWindowHours) * MsPerHour
        IsRecent(sale) == clock - sale.timestamp < timeWindow
        recentSales == SelectSeq(salesHistory, IsRecent)
        hourlyData == HourlyData(recentSales, clock)
    IN  [hourly |-> HourlyEntries(hourlyData, DOMAIN hourlyData),
         total |-> [sales |-> SumQuantity(recentSales),
                    revenue |-> SumRevenue(recentSales)]]

AnalyticsService_getSalesTrends(salesHistory, timeWindowHours, clock) ==
    LET timeWindow == OrDefault(timeWindowHours, DefaultWindowHours) * MsPerHour
        IsRecent(sale) == clock - sale.timestamp <= timeWindow
        recentSales == SelectSeq(salesHistory, IsRecent)
        hourlyData == HourlyData(recentSales, clock)
    IN  [hourly |-> HourlyEntries(hourlyData, DOMAIN hourlyData),
         total |-> [sales |-> SumQuantity(recentSales),
                    revenue |-> SumRevenue(recentSales)]]

-----------------------------------------------------------------------------
(* services/adminService: the analytics of AdminService *)

AdminService_calculateProductStats(productId, salesHistory) ==
    LET productSales == SalesOf(productId, salesHistory)
        totalSold == SumQuantity(productSales)
        totalRevenue == SumRevenue(productSales)
    IN  [productId |-> productId,
         totalSold |-> totalSold,
         totalRevenue |-> totalRevenue,
         averagePrice |-> IF totalSold > 0 THEN Quotient(totalRevenue, totalSold)
                          ELSE Number(0),
         priceHistory |-> [i \in DOMAIN productSales |->
                              [price |-> productSales[i].priceAtSale,
                               timestamp |-> productSales[i].timestamp]]]

AdminService_calculateEconomicMetrics(salesHistory, products) ==
    IF Len(salesHistory) = 0 THEN ZeroMetrics
    ELSE LET totalRevenue == SumRevenue(salesHistory)
             totalTransactions == Len(salesHistory)
             priceChanges ==
                 [i \in DOMAIN products |-> ProductVolatility(products[i], salesHistory)]
             marketVolatility ==
                 IF Len(priceChanges) = 0
                 THEN [kind |-> "NaN", roots |-> <<>>]
                 ELSE [kind |-> "mean", roots |-> priceChanges]
             recentSales == SliceLast(salesHistory, 10)
             oldSales == SliceFirst(salesHistory, 10)
             recentAvgPrice == Quotient(SumPriceAtSale(recentSales), Len(recentSales))
             oldAvgPrice == Quotient(SumPriceAtSale(oldSales), Len(oldSales))
             priceInflation ==
                 IF oldAvgPrice.num > 0
                 THEN PercentChange(recentAvgPrice, oldAvgPrice)
                 ELSE Number(0)
         IN  [totalRevenue |-> totalRevenue,
              totalTransactions |-> totalTransactions,
              averageTransactionValue |-> Quotient(totalRevenue, totalTransactions),
              marketVolatility |-> marketVolatility,
              priceInflation |-> priceInflation]

AdminService_getTopProducts(salesHistory) ==
    LET productIds == SetOrder([i \in DOMAIN salesHistory |-> salesHistory[i].productId])
        stats == [i \in DOMAIN productIds |->
                     AdminService_calculateProductStats(productIds[i], salesHistory)]
    IN  SliceFirst(SortByTotalSoldDesc(stats), 5)

-----------------------------------------------------------------------------
(* The analytics as pure functions of a sale log and a product array:
   SpecAnalytics *)

MaxRecords == 3      \* records in a sale log of mixed sales
MaxRun == 10         \* records in each of the two runs of a two-price log

\* sales of three kinds: 1 unit at 2.00 half an hour ago, 2 units at 2.20 an
\* hour and a half ago, 3 units at 2.50 exactly 24 hours ago
SaleKinds ==
    { [quantity |-> 1, price |-> Euro(200, 100), age |-> MsPerHour \div 2],
      [quantity |-> 2, price |-> Euro(220, 100), age |-> 3 * (MsPerHour \div 2)],
      [quantity |-> 3, price |-> Euro(250, 100), age |-> 24 * MsPerHour] }

\* the products table holds products 1 and 2; product 3 has been sold too.
\* Product 1 sells in every kind, product 2 in the two recent kinds, product
\* 3 in the first; one sale of product 1 is 25 hours old
SoldIds == {1, 2, 3}

AnalyticsRecords ==
    { SaleRecord(IdToString(s[1]), s[2].quantity, s[2].price, StrategyNow - s[2].age) :
        s \in { t \in SoldIds \X SaleKinds : t[2].quantity + t[1] <= 4 } }
    \cup { SaleRecord("1", 1, Euro(200, 100), StrategyNow - 25 * MsPerHour) }

\* logs of mixed sales, in any order (the history is read newest first)
ShortLogs == UNION { [1..n -> AnalyticsRecords] : n \in 0..MaxRecords }

RunPrices == { Euro(0, 100), Euro(200, 100), Euro(220, 100) }

\* k sales at one price followed by m sales at another
RunLogs ==
    { [i \in 1..(k + m) |->
          SaleRecord("1", 1, IF i <= k THEN a ELSE b, StrategyNow - MsPerHour \div 2)] :
        a \in RunPrices, b \in RunPrices, k \in 0..MaxRun, m \in 0..MaxRun }

\* the products of the sales of a log, in log order
TopOrders == { <<1, 2, 3, 4, 5, 6>>, <<6, 1, 2, 6, 3, 4, 5>>, <<1, 2, 1, 3, 2>> }

\* logs of up to six products that sell 1 or 2 units a sale
TopLogs ==
    UNION { { [i \in DOMAIN order |->
                 SaleRecord(IdToString(order[i]), q[i], SalePrice,
                            StrategyNow - MsPerHour \div 2)] :
              q \in [DOMAIN order -> {1, 2}] } :
            order \in TopOrders }

AnalyticsLogs == ShortLogs \cup RunLogs \cup TopLogs

\* the product arrays: none, product 1, products 1 and 2
ProductArrays == { SubSeq(InitialCatalog, 1, n) : n \in 0..2 }

StatsIds == {"1", "2", "9"}

TrendWindows == {Undefined, Some(1)}

Services == {"AnalyticsService", "AdminService"}

AnalyticsInit ==
    /\ Unmounted
    /\ catalog \in ProductArrays
    /\ salesLog \in AnalyticsLogs
    /\ now = StrategyNow
    /\ strategy = DefaultStrategy
    /\ lastSet = "none"
    /\ batch = None
    /\ input = None
    /\ writes = 0
    /\ ret = None

CalculateProductStats(service, productId) ==
    /\ ret' = [op |-> "calculateProductStats", service |-> service,
               productId |-> productId,
               stats |-> IF service = "AdminService"
                         THEN AdminService_calculateProductStats(productId, salesLog)
                         ELSE AnalyticsService_calculateProductStats(productId, salesLog)]
    /\ UNCHANGED <<passes, shopVars, catalog, salesLog, now, strategy, lastSet, batch, input, writes>>

CalculateEconomicMetrics(service) ==
    /\ ret' = [op |-> "calculateEconomicMetrics", service |-> service,
               metrics |-> IF service = "AdminService"
                           THEN AdminService_calculateEconomicMetrics(salesLog, catalog)
                           ELSE AnalyticsService_calculateEconomicMetrics(salesLog, catalog)]
    /\ UNCHANGED <<passes, shopVars, catalog, salesLog, now, strategy, lastSet, batch, input, writes>>

GetTopProducts(service) ==
    /\ ret' = [op |-> "getTopProducts", service |-> service,
               top |-> IF service = "AdminService"
                       THEN AdminService_getTopProducts(salesLog)
                       ELSE AnalyticsService_getTopProducts(salesLog)]
    /\ UNCHANGED <<passes, shopVars, catalog, salesLog, now, strategy, lastSet, batch, input, writes>>

GetSalesTrends(window) ==
    /\ ret' = [op |-> "getSalesTrends", window |-> window,
               trends |-> AnalyticsService_getSalesTrends(salesLog, window, now)]
    /\ UNCHANGED <<passes, shopVars, catalog, salesLog, now, strategy, lastSet, batch, input, writes>>

AnalyticsNext ==
    \/ \E service \in Services, productId \in StatsIds :
           CalculateProductStats(service, productId)
    \/ \E service \in Services : CalculateEconomicMetrics(service)
    \/ \E service \in Services : GetTopProducts(service)
    \/ \E window \in TrendWindows : GetSalesTrends(window)

SpecAnalytics == AnalyticsInit /\ [][AnalyticsNext]_vars

-----------------------------------------------------------------------------
(* The pricing service and the analytics over one catalog and one sale log:
   SpecLayer *)

\* the calls of the service with its default strategy and arguments and the
\* calls of the analytics, between sales and clock advances
LayerNext ==
    \/ \E id \in ProductIds, q \in ServiceQuantities : AddSaleRecord(id, q)
    \/ Tick
    \/ \E id \in ProductIds : CalculatePrice(id, Undefined)
    \/ \E id \in ProductIds, outcome \in WriteOutcomes :
           ApplyDynamicPricing(id, Undefined, outcome)
    \/ \E id \in ProductIds : GetPricingAnalysis(id)
    \/ \E productId \in StatsIds : CalculateProductStats("AnalyticsService", productId)
    \/ CalculateEconomicMetrics("AnalyticsService")
    \/ GetTopProducts("AnalyticsService")
    \/ \E window \in TrendWindows : GetSalesTrends(window)

SpecLayer == Init /\ [][LayerNext]_vars

-----------------------------------------------------------------------------
(* services/adminService: the dynamic pricing of AdminService *)

\* the identifier texts the callers pass: decimal numerals, and "x", which
\* is no number
IdTexts == {"1", "2", "3", "x"}

\* parseInt(text): <<n>>, or <<>> for NaN
ParseInt(text) ==
    IF \E n \in 0..9 : IdToString(n) = text
    THEN <<CHOOSE n \in 0..9 : IdToString(n) = text>>
    ELSE <<>>

\* products.find((p) => p.id === parseInt(productId)): <<product>> or <<>>
FindProduct(products, productId) ==
    LET IsIt(p) == <<p.id>> = ParseInt(productId)
        found == SelectSeq(products, IsIt)
    IN  IF found = <<>> THEN <<>> ELSE <<found[1]>>

\* the factors in hundredths
AdminService_calculateDemandFactor(recentSales) ==
    IF recentSales >= 8 THEN 115
    ELSE IF recentSales >= 5 THEN 110
    ELSE IF recentSales >= 3 THEN 105
    ELSE IF recentSales >= 1 THEN 100
    ELSE 95

AdminService_calculateStockFactor(currentStock, initialStock) ==
    LET stockRatio == Divide(currentStock, initialStock)
    IN  IF LessEq(stockRatio, 1) THEN 115
        ELSE IF LessEq(stockRatio, 2) THEN 108
        ELSE IF LessEq(stockRatio, 5) THEN 102
        ELSE IF GreaterEq(stockRatio, 9) THEN 98
        ELSE 100

\* basePrice * demandFactor * stockFactor is a whole number of units (for a
\* price in whole cents: its cents times the factors are a multiple of 100)
AdminExact(product, salesHistory, clock) ==
    LET recentSales == RecentSales(product, salesHistory,
                                   DefaultWindowHours * MsPerHour, clock)
        demandFactor == AdminService_calculateDemandFactor(SumQuantity(recentSales))
        stockFactor == AdminService_calculateStockFactor(product.stock, product.initialstock)
    IN  /\ WholeCents(product.price)
        /\ ((product.price \div 100) * demandFactor * stockFactor) % 100 = 0

\* mutant: the two factors move the price by cents, (factor - 1) euro each,
\* and the result is not clamped
AdminService_calculateDynamicPrice_ByCents(product, salesHistory, timeWindowHours, clock) ==
    LET timeWindow == OrDefault(timeWindowHours, DefaultWindowHours) * MsPerHour
        recentSales == RecentSales(product, salesHistory, timeWindow, clock)
        totalRecentSales == SumQuantity(recentSales)
        demandFactor == AdminService_calculateDemandFactor(totalRecentSales)
        stockFactor == AdminService_calculateStockFactor(product.stock, product.initialstock)
    IN  product.price + (demandFactor - 100 + stockFactor - 100) * (UnitsPerEuro \div 100)

AdminService_calculateDynamicPrice(product, salesHistory, timeWindowHours, clock) ==
    LET timeWindow == OrDefault(timeWindowHours, DefaultWindowHours) * MsPerHour
        recentSales == RecentSales(product, salesHistory, timeWindow, clock)
        totalRecentSales == SumQuantity(recentSales)
        basePrice == product.price
        demandFactor == AdminService_calculateDemandFactor(totalRecentSales)
        stockFactor == AdminService_calculateStockFactor(product.stock, product.initialstock)
        \* basePrice * demandFactor * stockFactor, in units: the hundreds of
        \* basePrice and its rest are multiplied apart, so that the product
        \* stays within 32-bit integers
        newPrice == ((basePrice \div 100) * demandFactor * stockFactor
                     + ((basePrice % 100) * demandFactor * stockFactor) \div 100)
                    \div 100
        minPrice == Times(basePrice, 75)
        maxPrice == Times(basePrice, 140)
    IN  MathMax(minPrice, MathMin(maxPrice, newPrice))

\* AdminService.updateProductPrice: the array returned, or Undefined when the
\* awaited write rejects
AdminService_updateProductPrice(products, productId, newPrice, outcome) ==
    IF outcome = "rejected" THEN Undefined
    ELSE IF outcome = "error" THEN Some(products)
    ELSE Some([i \in DOMAIN products |->
                 IF <<products[i].id>> = ParseInt(productId)
                 THEN [products[i] EXCEPT !.price = newPrice]
                 ELSE products[i]])

\* mutant: an identifier that is not found is repriced as the first product
AdminService_applyDynamicPricing_FirstProduct(productId, products, salesHistory, clock, outcome) ==
    LET found == IF FindProduct(products, productId) = <<>> /\ products # <<>>
                 THEN <<products[1]>>
                 ELSE FindProduct(products, productId)
    IN  IF found = <<>>
        THEN [found |-> FALSE, newPrice |-> 0, wrote |-> FALSE, outcome |-> "none",
              raised |-> FALSE, returned |-> Some(products)]
        ELSE LET product == found[1]
                 newPrice == AdminService_calculateDynamicPrice(
                                 product, salesHistory, Undefined, clock)
                 priceChange == Abs(newPrice - product.price)
             IN  IF priceChange >= Euro(2, 100)
                 THEN [found |-> TRUE, newPrice |-> newPrice, wrote |-> TRUE,
                       outcome |-> outcome, raised |-> outcome = "rejected",
                       returned |-> AdminService_updateProductPrice(
                                        products, IdToString(product.id), newPrice, outcome)]
                 ELSE [found |-> TRUE, newPrice |-> newPrice, wrote |-> FALSE,
                       outcome |-> "none", raised |-> FALSE,
                       returned |-> Some(products)]

\* AdminService.applyDynamicPricing(productId, products, salesHistory) with
\* the outcome of the write it may make: whether the product was found, the
\* price computed, whether a write was attempted, and what the call returned
AdminService_applyDynamicPricing(productId, products, salesHistory, clock, outcome) ==
    LET found == FindProduct(products, productId)
    IN  IF found = <<>>
        THEN [found |-> FALSE, newPrice |-> 0, wrote |-> FALSE, outcome |-> "none",
              raised |-> FALSE, returned |-> Some(products)]
        ELSE LET product == found[1]
                 newPrice == AdminService_calculateDynamicPrice(
                                 product, salesHistory, Undefined, clock)
                 priceChange == Abs(newPrice - product.price)
             IN  IF priceChange >= Euro(2, 100)
                 THEN [found |-> TRUE, newPrice |-> newPrice, wrote |-> TRUE,
                       outcome |-> outcome, raised |-> outcome = "rejected",
                       returned |-> AdminService_updateProductPrice(
                                        products, productId, newPrice, outcome)]
                 ELSE [found |-> TRUE, newPrice |-> newPrice, wrote |-> FALSE,
                       outcome |-> "none", raised |-> FALSE,
                       returned |-> Some(products)]

-----------------------------------------------------------------------------
(* The dynamic pricing of AdminService over the catalog and the sale log:
   SpecAdmin *)

AdminCatalog ==
    [i \in ProductIds |->
        IF i = 1
        THEN [id |-> 1, name |-> ProductName(1), price |-> Euro(200, 100),
              stock |-> 17, initialstock |-> 20]
        ELSE [id |-> 2, name |-> ProductName(2), price |-> Euro(300, 100),
              stock |-> 100, initialstock |-> 100]]

\* the product arrays a caller holds: rows of the catalog, all or some
SuppliedProducts(cat) ==
    { <<>>, <<cat[1]>>, <<cat[2]>>, <<cat[1], cat[2]>> }

AdminInit ==
    /\ Unmounted
    /\ catalog = AdminCatalog
    /\ salesLog = <<>>
    /\ now = 0
    /\ strategy = DefaultStrategy
    /\ lastSet = "none"
    /\ batch = None
    /\ input = None
    /\ writes = 0
    /\ ret = None

AdminApplyDynamicPricing(productId, products, outcome) ==
    LET found == FindProduct(products, productId)
        call == AdminService_applyDynamicPricing(
                    productId, products, salesLog, now, outcome)
    IN  /\ found # <<>> => AdminExact(found[1], salesLog, now)
        /\ Accepted(call) => writes < MaxWrites
        /\ catalog' = IF call.wrote
                      THEN updateProductPrice(catalog, ParseInt(productId)[1],
                                              call.newPrice, call.outcome)
                      ELSE catalog
        /\ writes' = IF Accepted(call) THEN writes + 1 ELSE writes
        /\ ret' = [op |-> "AdminService.applyDynamicPricing",
                   productId |-> productId, products |-> products,
                   call |-> call, before |-> catalog]
        /\ UNCHANGED <<passes, shopVars, salesLog, now, strategy, lastSet, batch, input>>

AdminNext ==
    \/ \E id \in ProductIds, q \in ServiceQuantities : AddSaleRecord(id, q)
    \/ Tick
    \/ \E productId \in IdTexts, products \in SuppliedProducts(catalog),
          outcome \in WriteOutcomes :
           AdminApplyDynamicPricing(productId, products, outcome)

SpecAdmin == AdminInit /\ [][AdminNext]_vars

-----------------------------------------------------------------------------
(* Concurrent repricing passes over the products table: SpecRace.  A caller
   reads the product row, then calls applyDynamicPricing with it; the call
   computes at once and its write reaches the table at a later step. *)

\* the two callers; each makes one pass
Callers == {1, 2}

RaceServices == {"PricingService", "AdminService"}

\* mutant: the pass computes from the row stored when its write is made
PassProduct_Fresh(pass, cat) == cat[pass.product.id]

\* the product a pass computes from and compares with: the argument it was
\* called with, that is the row its caller read before the call
PassProduct(pass, cat) == pass.product

\* the pass as a call of its service, with the outcome of the write
PassCall(pass, cat, s, outcome) ==
    LET product == PassProduct(pass, cat)
    IN  IF pass.service = "PricingService"
        THEN PricingService_applyDynamicPricing(
                 s, product, pass.salesHistory, Undefined, pass.clock, outcome)
        ELSE LET call == AdminService_applyDynamicPricing(
                             IdToString(product.id), <<product>>,
                             pass.salesHistory, pass.clock, outcome)
             IN  [newPrice |-> call.newPrice, wrote |-> call.wrote,
                  outcome |-> call.outcome, raised |-> call.raised,
                  returned |-> call.returned]

RaceInit ==
    /\ Unmounted
    /\ catalog = AdminCatalog
    /\ salesLog = <<>>
    /\ now = 0
    /\ strategy = DefaultStrategy
    /\ lastSet = "none"
    /\ batch = None
    /\ input = None
    /\ writes = 0
    /\ ret = None

\* a caller reads the row of a product and the sale log, and calls its service
BeginPass(caller, service, id) ==
    /\ \A pass \in passes : pass.caller # caller
    /\ IF service = "PricingService"
       THEN WholeCents(catalog[id].price)
       ELSE AdminExact(catalog[id], salesLog, now)
    /\ passes' = passes \cup
                   { [caller |-> caller, service |-> service, pc |-> "write",
                      product |-> catalog[id], salesHistory |-> salesLog,
                      clock |-> now] }
    /\ ret' = None
    /\ UNCHANGED <<shopVars, catalog, salesLog, now, strategy, lastSet, batch,
                   input, writes>>

\* the write of a pass, if it makes one, reaches the products table and the
\* call returns to its caller
EndPass(caller, outcome) ==
    \E pass \in passes :
        /\ pass.caller = caller
        /\ pass.pc = "write"
        /\ LET call == PassCall(pass, catalog, strategy, outcome)
           IN  /\ call.wrote \/ outcome = "ok"
               /\ catalog' = CatalogAfter(catalog, pass.product, call)
               /\ writes' = IF Accepted(call) THEN writes + 1 ELSE writes
               /\ ret' = [op |-> "EndPass", pass |-> pass, call |-> call,
                          before |-> catalog]
        /\ passes' = (passes \ {pass}) \cup {[pass EXCEPT !.pc = "done"]}
        /\ UNCHANGED <<shopVars, salesLog, now, strategy, lastSet, batch, input>>

RaceNext ==
    \/ \E id \in ProductIds : AddSaleRecord(id, 5)
    \/ \E caller \in Callers, service \in RaceServices, id \in ProductIds :
           BeginPass(caller, service, id)
    \/ \E caller \in Callers, outcome \in WriteOutcomes : EndPass(caller, outcome)

SpecRace == RaceInit /\ [][RaceNext]_vars

-----------------------------------------------------------------------------
(* hooks/useShop.ts: the cart, the balance and the local products *)

MaxCart == 2         \* units in the cart
MaxCheckouts == 2    \* checkout calls in a behaviour
MaxSurplus == 1      \* units removeFromCart may lift a stock above the loaded one
MaxFaults == 1       \* database calls of the shop that fail in a behaviour
MaxEdits == 3        \* addToCart and removeFromCart calls in a behaviour

\* products.find((p) => p.id === pid), as <<product>> or <<>>
FindById(prods, pid) ==
    LET found == SelectSeq(prods, LAMBDA p : p.id = pid)
    IN  IF found = <<>> THEN <<>> ELSE <<found[1]>>

\* products.find((p) => p.id === pid)?.price ?? 0
currentPrice(prods, pid) ==
    IF FindById(prods, pid) = <<>> THEN 0 ELSE FindById(prods, pid)[1].price

\* the index findIndex returns for a cart line, 0 for -1
CartIndex(prev, pid, priceAtAdd) ==
    LET idx == { i \in DOMAIN prev :
                   prev[i].productId = pid /\ prev[i].priceAtAdd = priceAtAdd }
    IN  IF idx = {} THEN 0 ELSE CHOOSE i \in idx : \A j \in idx : i <= j

\* addToCart: the updater passed to setProducts
addToCart_products(prev, pid) ==
    [i \in DOMAIN prev |->
        IF prev[i].id = pid /\ prev[i].stock > 0
        THEN [prev[i] EXCEPT !.stock = @ - 1]
        ELSE prev[i]]

\* addToCart: the updater passed to setCart, with currentPrice(pid)
addToCart_cart(prev, pid, price) ==
    LET found == CartIndex(prev, pid, price)
    IN  IF found # 0
        THEN [prev EXCEPT ![found].qty = @ + 1]
        ELSE Append(prev, [productId |-> pid, qty |-> 1, priceAtAdd |-> price])

\* removeFromCart: the updater passed to setCart
removeFromCart_cart(prev, pid, priceAtAdd) ==
    LET idx == CartIndex(prev, pid, priceAtAdd)
    IN  IF idx = 0 THEN prev
        ELSE IF prev[idx].qty > 1 THEN [prev EXCEPT ![idx].qty = @ - 1]
        ELSE SubSeq(prev, 1, idx - 1) \o SubSeq(prev, idx + 1, Len(prev))

\* removeFromCart: the updater passed to setProducts
removeFromCart_products(prev, pid) ==
    [i \in DOMAIN prev |->
        IF prev[i].id = pid THEN [prev[i] EXCEPT !.stock = @ + 1] ELSE prev[i]]

RECURSIVE cartTotal(_)
\* cart.reduce((acc, c) => acc + c.qty * c.priceAtAdd, 0)
cartTotal(c) ==
    IF c = <<>> THEN 0
    ELSE cartTotal(SubSeq(c, 1, Len(c) - 1)) + c[Len(c)].qty * c[Len(c)].priceAtAdd

\* Number(x.toFixed(2)): x rounded to a whole number of cents
ToFixed2(x) ==
    IF x >= 0 THEN ((x + 50) \div 100) * 100 ELSE -(((-x + 50) \div 100) * 100)

\* the row checkout inserts for a cart line; created_at is set by the table
\* (DEFAULT now())
DBSalesRecord(item, clock) ==
    [product_id |-> item.productId, quantity |-> item.qty,
     revenue |-> item.qty * item.priceAtAdd, price_at_sale |-> item.priceAtAdd,
     created_at |-> Some(clock)]

\* database/sales.ts getSalesHistory: the rows by created_at, newest first,
\* or [] when the query reports an error.  The table holds its rows in the
\* order of their creation, so newest first is that order reversed.
dbGetSalesHistory(table, outcome) ==
    IF outcome = "error" THEN <<>>
    ELSE [i \in 1..Len(table) |-> table[Len(table) + 1 - i]]

\* AdminService.getSalesHistory: the rows converted to SalesRecord, in the
\* order the query delivered them
AdminService_getSalesHistory(dbSales, clock) ==
    [index \in 1..Len(dbSales) |->
        LET sale == dbSales[index]
        IN  [productId |-> IdToString(sale.product_id),
             quantity |-> sale.quantity,
             revenue |-> sale.revenue,
             timestamp |-> IF sale.created_at # Undefined
                           THEN sale.created_at[1]
                           ELSE clock - (index - 1) * 1000,
             priceAtSale |-> sale.price_at_sale]]

\* database/products.ts updateProductStock: update({ stock }).eq("id", id)
updateProductStock(cat, productId, newStock, outcome) ==
    IF outcome = "ok"
    THEN [i \in DOMAIN cat |->
            IF cat[i].id = productId THEN [cat[i] EXCEPT !.stock = newStock]
            ELSE cat[i]]
    ELSE cat

\* the stock checkout passes to AdminService.updateProductStock for a line:
\* (products.find((p) => p.id === item.productId)?.stock || 0) - item.qty
checkout_newStock(prods, item) ==
    (IF FindById(prods, item.productId) = <<>> THEN 0
     ELSE FindById(prods, item.productId)[1].stock) - item.qty

-----------------------------------------------------------------------------
(* The shop over the products table and the sales_history table: SpecShop.
   Here salesLog is the sales_history table, its rows in the order of their
   creation.  A checkout call runs in steps, one for each await; the user
   may act, and start another checkout, between the steps. *)

ShopCatalog ==
    [i \in ProductIds |->
        IF i = 1
        THEN [id |-> 1, name |-> ProductName(1), price |-> Euro(400, 100),
              stock |-> 1, initialstock |-> 20]
        ELSE [id |-> 2, name |-> ProductName(2), price |-> Euro(1800, 100),
              stock |-> 100, initialstock |-> 100]]

\* fetchProducts(): the rows of the table, or [] on an error
fetchProducts(cat, outcome) ==
    IF outcome = "ok" THEN [i \in 1..Cardinality(DOMAIN cat) |-> cat[i]] ELSE <<>>

ReadOutcomes == {"ok", "error"}

RECURSIVE CartQuantityOf(_, _)
\* the units of a product in a cart, over all its lines
CartQuantityOf(c, pid) ==
    IF c = <<>> THEN 0
    ELSE CartQuantityOf(SubSeq(c, 1, Len(c) - 1), pid)
         + (IF c[Len(c)].productId = pid THEN c[Len(c)].qty ELSE 0)

CartQuantity(c) == CartQuantityOf(c, 1) + CartQuantityOf(c, 2)

\* the stock of a product in an array of rows, 0 when it is not there
StockIn(prods, pid) ==
    IF FindById(prods, pid) = <<>> THEN 0 ELSE FindById(prods, pid)[1].stock

ShopInit ==
    /\ Unmounted
    /\ catalog = ShopCatalog
    /\ salesLog = <<>>
    /\ now = 0
    /\ strategy = DefaultStrategy
    /\ lastSet = "none"
    /\ batch = None
    /\ input = None
    /\ writes = 0
    /\ ret = None

\* the effect run on mount: loadProducts()
LoadProducts(outcome) ==
    /\ shopLog = None
    /\ shopProducts' = fetchProducts(catalog, outcome)
    /\ shopLog' = [op |-> "shop", loaded |-> fetchProducts(catalog, outcome),
                   started |-> 0, edits |-> 0, generation |-> 0, charged |-> <<>>,
                   faults |-> IF outcome = "ok" THEN 0 ELSE 1]
    /\ ret' = None
    /\ UNCHANGED <<passes, balance, cart, checkouts, catalog, salesLog, now,
                   strategy, lastSet, batch, input, writes>>

AddToCart(pid) ==
    /\ shopLog # None
    /\ shopLog.edits < MaxEdits
    /\ CartQuantity(cart) < MaxCart
    /\ shopLog' = [shopLog EXCEPT !.edits = @ + 1]
    /\ shopProducts' = addToCart_products(shopProducts, pid)
    /\ cart' = addToCart_cart(cart, pid, currentPrice(shopProducts, pid))
    /\ ret' = [op |-> "addToCart", pid |-> pid,
               before |-> [products |-> shopProducts, cart |-> cart]]
    /\ UNCHANGED <<passes, balance, checkouts, catalog, salesLog, now,
                   strategy, lastSet, batch, input, writes>>

RemoveFromCart(pid, priceAtAdd) ==
    /\ shopLog # None
    /\ shopLog.edits < MaxEdits
    /\ shopLog' = [shopLog EXCEPT !.edits = @ + 1]
    /\ StockIn(shopProducts, pid) < StockIn(shopLog.loaded, pid) + MaxSurplus
    /\ cart' = removeFromCart_cart(cart, pid, priceAtAdd)
    /\ shopProducts' = removeFromCart_products(shopProducts, pid)
    /\ ret' = [op |-> "removeFromCart", pid |-> pid, priceAtAdd |-> priceAtAdd,
               before |-> [products |-> shopProducts, cart |-> cart]]
    /\ UNCHANGED <<passes, balance, checkouts, catalog, salesLog, now,
                   strategy, lastSet, batch, input, writes>>

\* the checkout in flight after its step at pc for line i of n: the loop
\* goes on, or the next part begins
Advance(ck, next) ==
    IF ck.i < Len(ck.cart) THEN [ck EXCEPT !.i = @ + 1]
    ELSE [ck EXCEPT !.pc = next, !.i = 1]

Replace(ck, new) == (checkouts \ {ck}) \cup {new}

\* the history after a database call that ended as outcome; at most
\* MaxFaults calls fail
Faulty(outcome) == outcome # "ok" => shopLog.faults < MaxFaults

Noted(log, outcome) ==
    IF outcome = "ok" THEN log ELSE [log EXCEPT !.faults = @ + 1]

\* checkout() is called: the balance is tested against the total of the
\* cart, and the call goes on with the cart, the products and the total of
\* the render it was made in
CheckoutStart ==
    /\ shopLog # None
    /\ shopLog.started < MaxCheckouts
    /\ shopLog' = [shopLog EXCEPT !.started = @ + 1]
    /\ IF cartTotal(cart) > balance
       THEN /\ checkouts' = checkouts
            /\ ret' = [op |-> "checkout", refused |-> TRUE,
                       before |-> [balance |-> balance, cart |-> cart,
                                   catalog |-> catalog, salesLog |-> salesLog,
                                   products |-> shopProducts]]
       ELSE /\ checkouts' = checkouts \cup
                   { [id |-> shopLog.started + 1, cart |-> cart,
                      products |-> shopProducts, cartTotal |-> cartTotal(cart),
                      generation |-> shopLog.generation,
                      pc |-> IF cart = <<>> THEN "log" ELSE "append", i |-> 1,
                      appended |-> <<>>, salesHistory |-> <<>>,
                      updatedProducts |-> <<>>] }
            /\ ret' = [op |-> "checkout", refused |-> FALSE]
    /\ UNCHANGED <<passes, shopProducts, balance, cart, catalog, salesLog, now,
                   strategy, lastSet, batch, input, writes>>

\* await addSaleRecord(saleRecord) for a cart line: the row is inserted, or
\* the insert reports an error (false is returned and the loop goes on), or
\* the call throws and checkout ends in its catch block
CheckoutAppend(id, outcome) ==
    \E ck \in checkouts :
        /\ ck.id = id
        /\ ck.pc = "append"
        /\ Faulty(outcome)
        /\ shopLog' = Noted(shopLog, outcome)
        /\ LET saleRecord == DBSalesRecord(ck.cart[ck.i], now)
           IN  /\ salesLog' = IF outcome = "ok" THEN Append(salesLog, saleRecord)
                              ELSE salesLog
               /\ checkouts' =
                      IF outcome = "rejected" THEN checkouts \ {ck}
                      ELSE Replace(ck, Advance(
                               IF outcome = "ok"
                               THEN [ck EXCEPT !.appended = Append(@, saleRecord)]
                               ELSE ck, "stock"))
        /\ ret' = [op |-> "checkout.append", outcome |-> outcome]
        /\ UNCHANGED <<passes, shopProducts, balance, cart, catalog, now,
                       strategy, lastSet, batch, input, writes>>

\* await AdminService.updateProductStock(...) for a cart line; a failure is
\* logged and the loop goes on
CheckoutStock(id, outcome) ==
    \E ck \in checkouts :
        /\ ck.id = id
        /\ ck.pc = "stock"
        /\ Faulty(outcome)
        /\ shopLog' = Noted(shopLog, outcome)
        /\ LET item == ck.cart[ck.i]
               newStock == checkout_newStock(ck.products, item)
           IN  /\ catalog' = updateProductStock(catalog, item.productId,
                                                newStock, outcome)
               /\ ret' = [op |-> "checkout.stock", item |-> item, cart |-> ck.cart,
                          newStock |-> newStock, outcome |-> outcome]
        /\ checkouts' = Replace(ck, Advance(ck, "log"))
        /\ UNCHANGED <<passes, shopProducts, balance, cart, salesLog, now,
                       strategy, lastSet, batch, input, writes>>

\* await AdminService.getSalesHistory(), then updatedProducts = [...products];
\* when the call throws, the repricing is given up.  With no cart line the
\* loop is empty and setProducts(updatedProducts) follows at once.
CheckoutReadLog(id, outcome) ==
    \E ck \in checkouts :
        /\ ck.id = id
        /\ ck.pc = "log"
        /\ Faulty(outcome)
        /\ shopLog' = Noted(shopLog, outcome)
        /\ LET salesHistory == AdminService_getSalesHistory(
                                   dbGetSalesHistory(salesLog, outcome), now)
               read == [ck EXCEPT !.salesHistory = salesHistory,
                                  !.updatedProducts = ck.products]
           IN  /\ checkouts' =
                      Replace(ck,
                          IF outcome = "rejected" \/ ck.cart = <<>>
                          THEN [read EXCEPT !.pc = "refresh"]
                          ELSE [read EXCEPT !.pc = "price", !.i = 1])
               /\ shopProducts' = IF outcome # "rejected" /\ ck.cart = <<>>
                                  THEN ck.products
                                  ELSE shopProducts
        /\ ret' = [op |-> "checkout.log", outcome |-> outcome, id |-> id]
        /\ UNCHANGED <<passes, balance, cart, catalog, salesLog, now,
                       strategy, lastSet, batch, input, writes>>

\* await AdminService.applyDynamicPricing(...) for a cart line, on the array
\* the line before it returned; after the last line
\* setProducts(updatedProducts).  When the write throws, the repricing is
\* given up and the products state is left as it is.
CheckoutPrice(id, outcome) ==
    \E ck \in checkouts :
        /\ ck.id = id
        /\ ck.pc = "price"
        /\ Faulty(outcome)
        /\ shopLog' = Noted(shopLog, outcome)
        /\ LET item == ck.cart[ck.i]
               productId == IdToString(item.productId)
               found == FindProduct(ck.updatedProducts, productId)
               call == AdminService_applyDynamicPricing(
                           productId, ck.updatedProducts, ck.salesHistory, now, outcome)
           IN  /\ found # <<>> => AdminExact(found[1], ck.salesHistory, now)
               /\ call.wrote \/ outcome = "ok"
               /\ catalog' = IF call.wrote
                             THEN updateProductPrice(catalog, item.productId,
                                                     call.newPrice, call.outcome)
                             ELSE catalog
               /\ checkouts' =
                      Replace(ck,
                          IF call.raised THEN [ck EXCEPT !.pc = "refresh"]
                          ELSE Advance([ck EXCEPT !.updatedProducts = call.returned[1]],
                                       "refresh"))
               /\ shopProducts' = IF ~call.raised /\ ck.i = Len(ck.cart)
                                  THEN call.returned[1]
                                  ELSE shopProducts
               /\ ret' = [op |-> "checkout.price", item |-> item,
                          appended |-> ck.appended,
                          salesHistory |-> ck.salesHistory,
                          wrote |-> call.wrote, outcome |-> call.outcome]
        /\ UNCHANGED <<passes, balance, cart, salesLog, now,
                       strategy, lastSet, batch, input, writes>>

\* await fetchProducts(): a non-empty result replaces the products state;
\* then setBalance((b) => Number((b - cartTotal).toFixed(2))) and setCart([])
CheckoutRefresh(id, outcome) ==
    \E ck \in checkouts :
        /\ ck.id = id
        /\ ck.pc = "refresh"
        /\ Faulty(outcome)
        /\ LET refreshedProducts == fetchProducts(catalog, outcome)
           IN  /\ shopProducts' = IF Len(refreshedProducts) > 0
                                  THEN refreshedProducts ELSE shopProducts
               /\ shopLog' = [Noted(shopLog, outcome) EXCEPT
                                 !.loaded = IF Len(refreshedProducts) > 0
                                            THEN refreshedProducts ELSE @,
                                 !.generation = @ + 1,
                                 !.charged = IF ck.cartTotal > 0
                                             THEN Append(@, ck.generation)
                                             ELSE @]
        /\ balance' = ToFixed2(balance - ck.cartTotal)
        /\ cart' = <<>>
        /\ checkouts' = checkouts \ {ck}
        /\ ret' = [op |-> "checkout.done", cartTotal |-> ck.cartTotal]
        /\ UNCHANGED <<passes, catalog, salesLog, now, strategy, lastSet, batch,
                       input, writes>>

ShopNext ==
    \/ \E outcome \in ReadOutcomes : LoadProducts(outcome)
    \/ \E pid \in ProductIds : AddToCart(pid)
    \/ \E pid \in ProductIds :
           \E priceAtAdd \in {currentPrice(shopProducts, pid)}
                              \cup {cart[i].priceAtAdd : i \in DOMAIN cart} :
               RemoveFromCart(pid, priceAtAdd)
    \/ CheckoutStart
    \/ \E id \in 1..MaxCheckouts, outcome \in WriteOutcomes : CheckoutAppend(id, outcome)
    \/ \E id \in 1..MaxCheckouts, outcome \in WriteOutcomes : CheckoutStock(id, outcome)
    \/ \E id \in 1..MaxCheckouts, outcome \in WriteOutcomes : CheckoutReadLog(id, outcome)
    \/ \E id \in 1..MaxCheckouts, outcome \in WriteOutcomes : CheckoutPrice(id, outcome)
    \/ \E id \in 1..MaxCheckouts, outcome \in ReadOutcomes : CheckoutRefresh(id, outcome)

SpecShop == ShopInit /\ [][ShopNext]_vars

-----------------------------------------------------------------------------
(* Every repricing pass over the catalog and the sale log: SpecPrices *)

\* catalogs with prices of 0 and more, with low and high stocks and with an
\* initial stock of 0
PriceCatalogs ==
    { [i \in ProductIds |->
          IF i = 1
          THEN [id |-> 1, name |-> ProductName(1), price |-> c[1],
                stock |-> c[2], initialstock |-> 20]
          ELSE [id |-> 2, name |-> ProductName(2), price |-> c[3],
                stock |-> c[4], initialstock |-> c[4]]] :
        c \in { <<Euro(0, 100), 17, Euro(300, 100), 100>>,
                <<Euro(200, 100), 1, Euro(20, 100), 0>> } }

PricesInit ==
    /\ Unmounted
    /\ catalog \in PriceCatalogs
    /\ salesLog = <<>>
    /\ now = 0
    /\ strategy = DefaultStrategy
    /\ lastSet = "none"
    /\ batch = None
    /\ input = None
    /\ writes = 0
    /\ ret = None

PricesNext ==
    \/ \E id \in ProductIds : AddSaleRecord(id, 5)
    \/ \E s \in Strategies : SetStrategy(s)
    \/ \E id \in ProductIds, outcome \in WriteOutcomes :
           ApplyDynamicPricing(id, Undefined, outcome)
    \/ BatchStart(<<1, 2>>)
    \/ \E outcome \in WriteOutcomes : BatchStep(outcome)
    \/ \E id \in ProductIds, outcome \in WriteOutcomes :
           AdminApplyDynamicPricing(IdToString(id), <<catalog[1], catalog[2]>>, outcome)

SpecPrices == PricesInit /\ [][PricesNext]_vars

-----------------------------------------------------------------------------
(* Repeated passes of AdminService over one catalog: SpecRepeat.  Each pass
   is called with the rows of the products table as they are then, as
   checkout and the admin page call it after a refresh. *)

MaxRepricings == 2   \* price updates accepted in a behaviour of SpecRepeat

RepeatInit ==
    /\ Unmounted
    /\ catalog = ShopCatalog
    /\ salesLog = <<>>
    /\ now = 0
    /\ strategy = DefaultStrategy
    /\ lastSet = "none"
    /\ batch = None
    /\ input = None
    /\ writes = 0
    /\ ret = None

AdminPass(id, outcome) ==
    LET products == <<catalog[1], catalog[2]>>
        call == AdminService_applyDynamicPricing(
                    IdToString(id), products, salesLog, now, outcome)
    IN  /\ AdminExact(catalog[id], salesLog, now)
        /\ call.wrote \/ outcome = "ok"
        /\ Accepted(call) => writes < MaxRepricings
        /\ catalog' = IF call.wrote
                      THEN updateProductPrice(catalog, id, call.newPrice, call.outcome)
                      ELSE catalog
        /\ writes' = IF Accepted(call) THEN writes + 1 ELSE writes
        /\ ret' = [op |-> "AdminPass", id |-> id, call |-> call, before |-> catalog]
        /\ UNCHANGED <<passes, shopVars, salesLog, now, strategy, lastSet, batch, input>>

RepeatNext ==
    \/ \E id \in ProductIds, q \in ServiceQuantities : AddSaleRecord(id, q)
    \/ Tick
    \/ \E id \in ProductIds, outcome \in WriteOutcomes : AdminPass(id, outcome)

SpecRepeat == RepeatInit /\ [][RepeatNext]_vars

-----------------------------------------------------------------------------
(* The metrics of the sale log as AdminService.getSalesHistory delivers it:
   SpecHistory.  Here salesLog is the sales_history table, its rows in the
   order of their creation. *)

\* k rows at one price, then m rows at another, created one second apart
HistoryTables ==
    { [i \in 1..(k + m) |->
          DBSalesRecord([productId |-> 1, qty |-> 1,
                         priceAtAdd |-> IF i <= k THEN a ELSE b], i * 1000)] :
        a \in RunPrices, b \in RunPrices, k \in 0..MaxRun, m \in 0..MaxRun }

HistoryInit ==
    /\ Unmounted
    /\ catalog = InitialCatalog
    /\ salesLog \in HistoryTables
    /\ now = StrategyNow
    /\ strategy = DefaultStrategy
    /\ lastSet = "none"
    /\ batch = None
    /\ input = None
    /\ writes = 0
    /\ ret = None

\* the history is read and its metrics are computed
HistoryMetrics(outcome) ==
    LET salesHistory == AdminService_getSalesHistory(
                            dbGetSalesHistory(salesLog, outcome), now)
    IN  /\ ret' = [op |-> "history", outcome |-> outcome,
                   salesHistory |-> salesHistory,
                   metrics |-> AdminService_calculateEconomicMetrics(
                                   salesHistory, catalog)]
        /\ UNCHANGED <<passes, shopVars, catalog, salesLog, now, strategy, lastSet,
                       batch, input, writes>>

HistoryNext == \E outcome \in ReadOutcomes : HistoryMetrics(outcome)

SpecHistory == HistoryInit /\ [][HistoryNext]_vars

-----------------------------------------------------------------------------
(* The claims about the strategies, stated over SpecStrategy *)

\* the decimal text of the product identifiers of the model
IdText(id) == IF id = 1 THEN "1" ELSE "2"

\* the window of the call in hours: 24 when none is passed
ClaimWindowHours == IF input.window = <<>> THEN 24 ELSE input.window[1]

\* the positions of the log whose record counts as recent for the product:
\* its productId is the product's and its age is at most h hours
ClaimRecent(h) ==
    { i \in DOMAIN salesLog :
        /\ salesLog[i].productId = IdText(input.product.id)
        /\ now - salesLog[i].timestamp <= h * 3600000 }

RECURSIVE ClaimUnits(_)
ClaimUnits(I) ==
    IF I = {} THEN 0
    ELSE LET i == CHOOSE j \in I : TRUE
         IN  salesLog[i].quantity + ClaimUnits(I \ {i})

\* the demand multiplier of the specification, in hundredths
ClaimDemandMultiplier(units) ==
    CASE units >= 10 -> 130
      [] units >= 5 /\ units < 10 -> 115
      [] units >= 2 /\ units < 5 -> 100
      [] units = 1 -> 95
      [] units = 0 -> 80

\* the supply multiplier of the specification for stock / initial, initial > 0
ClaimSupplyMultiplier(stock, initial) ==
    CASE 10 * stock <= initial -> 120
      [] 10 * stock > initial /\ 10 * stock <= 3 * initial -> 110
      [] 10 * stock > 3 * initial /\ 10 * stock >= 8 * initial -> 95
      [] OTHER -> 100

\* C1: the Demand-Based price is basePrice x m, m chosen by the summed
\* quantities of exactly the product's records of age at most the window
\* (24 hours by default): 1.30 from 10 units, 1.15 from 5, 1.00 from 2,
\* 0.95 for 1, 0.80 for none; other records never change the result.
C1_DemandPrice ==
    ret.op = "Demand" =>
        100 * ret.price =
            input.product.price
                * ClaimDemandMultiplier(ClaimUnits(ClaimRecent(ClaimWindowHours)))

\* a record of age exactly the default window counts, next to a record that
\* does not (another product's, or an older one): 5 units, price x 1.15
C1_Witness ==
    /\ ret.op = "Demand"
    /\ input.window = <<>>
    /\ \E i \in ClaimRecent(24) : now - salesLog[i].timestamp = 24 * 3600000
    /\ DOMAIN salesLog \ ClaimRecent(24) # {}
    /\ ClaimUnits(ClaimRecent(24)) = 5
    /\ 100 * ret.price = 115 * input.product.price

\* C2: for a non-negative price the Demand-Based price lies in
\* [0.7 x base, 1.5 x base], the Supply-Based price in [0.8 x base, 1.4 x base]
\* and the Hybrid price in [0.5 x base, 2.0 x base].
C2_PriceBounds ==
    LET base == input.product.price
    IN  /\ ret.op = "Demand" =>
            7 * base <= 10 * ret.price /\ 10 * ret.price <= 15 * base
        /\ ret.op = "Supply" =>
            8 * base <= 10 * ret.price /\ 10 * ret.price <= 14 * base
        /\ ret.op = "Hybrid" =>
            5 * base <= 10 * ret.price /\ 10 * ret.price <= 20 * base

\* the lowest Demand-Based price: no recent sale, 0.8 x base, of a cheap product
C2_Witness ==
    /\ ret.op = "Demand"
    /\ input.product.price = 2000
    /\ ClaimRecent(ClaimWindowHours) = {}
    /\ 10 * ret.price = 8 * input.product.price

\* C3: the Supply-Based price ignores the sale log and is basePrice x m with
\* m = 1.2 for stock ratio <= 0.1, else 1.1 for ratio <= 0.3 (0.3 included),
\* else 0.95 for ratio >= 0.8, else 1.0; ratios 0.05, 0.2, 0.5 and 0.85 give
\* 1.2, 1.1, 1.0 and 0.95.  (The ratio exists when initialstock is not 0.)
C3_SupplyPrice ==
    LET p == input.product
        level == <<p.stock, p.initialstock>>
    IN  (ret.op = "Supply" /\ p.initialstock > 0) =>
            /\ 100 * ret.price = p.price * ClaimSupplyMultiplier(p.stock, p.initialstock)
            /\ level = <<1, 20>> => 100 * ret.price = 120 * p.price
            /\ level = <<4, 20>> => 100 * ret.price = 110 * p.price
            /\ level = <<6, 20>> => 100 * ret.price = 110 * p.price
            /\ level = <<10, 20>> => 100 * ret.price = 100 * p.price
            /\ level = <<17, 20>> => 100 * ret.price = 95 * p.price

\* a stock ratio of exactly 0.3, with sales of the product in the log
C3_Witness ==
    /\ ret.op = "Supply"
    /\ input.product.stock = 6 /\ input.product.initialstock = 20
    /\ ClaimRecent(ClaimWindowHours) # {}
    /\ 100 * ret.price = 110 * input.product.price

\* C4: with initialstock 0 the Supply-Based price is the one for ratio 0,
\* basePrice x 1.2, whatever the current stock.
C4_ZeroInitialStock ==
    (ret.op = "Supply" /\ input.product.initialstock = 0) =>
        100 * ret.price = 120 * input.product.price

\* C5: the Hybrid price is 0.6 x demandPrice + 0.4 x supplyPrice of the same
\* product, log and window, clamped to [0.5 x base, 2.0 x base]; base 3.00,
\* stock 100 of 100 and 6 units in the last 24 hours give 3.45, 2.85 and 3.21.
C5_HybridPrice ==
    LET p == input.product
        demandPrice == DemandBasedPricing_calculatePrice(p, salesLog, input.window, now)
        supplyPrice == SupplyBasedPricing_calculatePrice(p)
        weighted10 == 6 * demandPrice + 4 * supplyPrice
        clamped10 ==
            IF weighted10 < 5 * p.price THEN 5 * p.price
            ELSE IF weighted10 > 20 * p.price THEN 20 * p.price
            ELSE weighted10
    IN  ret.op = "Hybrid" =>
            /\ 10 * ret.price = clamped10
            /\ ( /\ p.price = 30000
                 /\ p.stock = 100 /\ p.initialstock = 100
                 /\ input.window = <<>>
                 /\ ClaimUnits(ClaimRecent(24)) = 6 )
               => /\ demandPrice = 34500
                  /\ supplyPrice = 28500
                  /\ ret.price = 32100

\* the example of the specification
C5_Witness ==
    /\ ret.op = "Hybrid"
    /\ input.product.price = 30000
    /\ input.product.stock = 100 /\ input.product.initialstock = 100
    /\ input.window = <<>>
    /\ ClaimUnits(ClaimRecent(24)) = 6
    /\ ret.price = 32100

-----------------------------------------------------------------------------
(* The claims about the pricing service, stated over Spec and SpecBatch *)

\* the strategy that is active: Hybrid until the first setStrategy, then the
\* argument of the last setStrategy
ClaimActive == IF lastSet = "none" THEN "Hybrid" ELSE lastSet

\* what that strategy returns for a product, the current log and a window
ClaimActivePrice(product, window) ==
    CASE ClaimActive = "Demand" ->
            DemandBasedPricing_calculatePrice(product, salesLog, window, now)
      [] ClaimActive = "Supply" -> SupplyBasedPricing_calculatePrice(product)
      [] ClaimActive = "Hybrid" ->
            HybridPricing_calculatePrice(product, salesLog, window, now)

\* the minDelta of the applyDynamicPricing call in ret: 0.01 by default
ClaimMinDelta ==
    IF ret.minPriceChange = <<>> THEN 100 ELSE ret.minPriceChange[1]

\* | recommendation - currentPrice | of the applyDynamicPricing call in ret
ClaimDelta ==
    IF ret.call.newPrice >= ret.product.price
    THEN ret.call.newPrice - ret.product.price
    ELSE ret.product.price - ret.call.newPrice

\* C6: applyDynamicPricing attempts a catalog write exactly when
\* abs(recommendation - currentPrice) >= minDelta (0.01 by default); without
\* a write the current price is returned; a difference of exactly 0.005
\* triggers no write and a difference of exactly 0.01 a write.
C6_WriteThreshold ==
    ret.op = "applyDynamicPricing" =>
        /\ ret.call.wrote <=> ClaimDelta >= ClaimMinDelta
        /\ ~ret.call.wrote =>
              /\ ret.call.returned = <<ret.product.price>>
              /\ catalog = ret.before
        /\ (ret.minPriceChange = <<>> /\ ClaimDelta = 50) => ~ret.call.wrote
        /\ (ret.minPriceChange = <<>> /\ ClaimDelta = 100) => ret.call.wrote

\* a recommendation 0.01 from the current price, the default threshold, a write
C6_Witness ==
    /\ ret.op = "applyDynamicPricing"
    /\ ret.minPriceChange = <<>>
    /\ ClaimDelta = 100
    /\ ret.call.wrote

\* the other boundary: a recommendation 0.005 from the current price, no write
C6_BelowThreshold ==
    /\ ret.op = "applyDynamicPricing"
    /\ ret.minPriceChange = <<>>
    /\ ClaimDelta = 50
    /\ ~ret.call.wrote

\* C7: when the catalog write of applyDynamicPricing fails (success = false,
\* or the call is rejected), applyDynamicPricing does not raise, returns the
\* product's original price, and the stored price is unchanged.
C7_FailedWriteIsSoft ==
    (/\ ret.op = "applyDynamicPricing"
     /\ ret.call.wrote
     /\ ret.call.outcome \in {"error", "rejected"}) =>
        /\ ~ret.call.raised
        /\ ret.call.returned = <<ret.product.price>>
        /\ catalog = ret.before

\* the part of C7 that the code keeps: a write that reports success = false
C7_ReportedFailure ==
    (/\ ret.op = "applyDynamicPricing"
     /\ ret.call.wrote
     /\ ret.call.outcome = "error") =>
        /\ ~ret.call.raised
        /\ ret.call.returned = <<ret.product.price>>
        /\ catalog = ret.before

\* C8: when abs(recommendation - currentPrice) >= minDelta and the write
\* succeeds, applyDynamicPricing returns the recommendation, the catalog
\* stores exactly that price for the product, and the other products and the
\* stock and initial stock of the repriced product are unchanged.
C8_SuccessfulWrite ==
    (/\ ret.op = "applyDynamicPricing"
     /\ ClaimDelta >= ClaimMinDelta
     /\ ret.call.outcome = "ok") =>
        LET id == ret.product.id
            recommendation == ClaimActivePrice(ret.product, <<>>)
        IN  /\ ret.call.returned = <<recommendation>>
            /\ catalog[id].price = recommendation
            /\ catalog[id].stock = ret.before[id].stock
            /\ catalog[id].initialstock = ret.before[id].initialstock
            /\ \A other \in DOMAIN catalog \ {id} : catalog[other] = ret.before[other]
            /\ DOMAIN catalog = DOMAIN ret.before

\* a write that changed the stored price of one product
C8_Witness ==
    /\ ret.op = "applyDynamicPricing"
    /\ ret.call.wrote /\ ret.call.outcome = "ok"
    /\ catalog[ret.product.id].price # ret.before[ret.product.id].price
    /\ ret.call.returned = <<catalog[ret.product.id].price>>

\* C9: applyDynamicPricingBatch processes every product of its input once, in
\* input order, and returns an array of the same length and order in which
\* each product differs from its input at most in price, the price being what
\* applyDynamicPricing returned for the input product; a failed write leaves
\* that product's price unchanged and does not stop the remaining products.
C9_Batch ==
    ret.op = "applyDynamicPricingBatch" =>
        LET n == Len(ret.products)
        IN  /\ ~ret.raised
            /\ Len(ret.calls) = n
            /\ \A k \in 1..n : ret.calls[k].id = ret.products[k].id
            /\ Len(ret.returned[1]) = n
            /\ \A k \in 1..n :
                  /\ ret.returned[1][k] =
                        [ret.products[k] EXCEPT !.price = ret.calls[k].call.returned[1]]
                  /\ (ret.calls[k].call.wrote /\ ret.calls[k].call.outcome # "ok")
                        => ret.returned[1][k].price = ret.products[k].price

\* the part of C9 that the code keeps: a batch in which no write is rejected
C9_BatchWithoutRejection ==
    (ret.op = "applyDynamicPricingBatch" /\ ~ret.raised) =>
        LET n == Len(ret.products)
        IN  /\ Len(ret.calls) = n
            /\ \A k \in 1..n : ret.calls[k].id = ret.products[k].id
            /\ Len(ret.returned[1]) = n
            /\ \A k \in 1..n :
                  /\ ret.returned[1][k] =
                        [ret.products[k] EXCEPT !.price = ret.calls[k].call.returned[1]]
                  /\ (ret.calls[k].call.wrote /\ ret.calls[k].call.outcome # "ok")
                        => ret.returned[1][k].price = ret.products[k].price

\* C10: the service prices with Hybrid until setStrategy is called and with
\* the argument of the last setStrategy afterwards: calculatePrice,
\* applyDynamicPricing and getPricingAnalysis use the active strategy, and
\* calculatePrice returns exactly what that strategy returns for the same
\* product, log and window.
C10_ActiveStrategy ==
    /\ strategy = ClaimActive
    /\ ret.op = "calculatePrice" =>
          ret.price = ClaimActivePrice(ret.product, ret.window)
    /\ ret.op = "applyDynamicPricing" =>
          ret.call.newPrice = ClaimActivePrice(ret.product, <<>>)
    /\ ret.op = "getPricingAnalysis" =>
          ret.analysis.suggestedPrice = ClaimActivePrice(ret.product, <<>>)

\* after setStrategy(Demand) a price that the default strategy would not give
C10_Witness ==
    /\ lastSet = "Demand"
    /\ ret.op = "calculatePrice"
    /\ ret.price = DemandBasedPricing_calculatePrice(ret.product, salesLog, ret.window, now)
    /\ ret.price # HybridPricing_calculatePrice(ret.product, salesLog, ret.window, now)

-----------------------------------------------------------------------------
(* The claims about getPricingAnalysis, stated over SpecAnalysis *)

\* C11: getPricingAnalysis returns currentPrice = the product's price,
\* suggestedPrice = the active strategy's price, priceChange = suggestedPrice
\* - currentPrice, priceChangePercent = priceChange / currentPrice x 100 (for
\* a price above 0, where the quotient exists), demandLevel High / Medium /
\* Low by the 24-hour recent units (>= 5, >= 2, else) and stockLevel Low /
\* Medium / High by the stock ratio (<= 0.3, <= 0.7, else).
C11_PricingAnalysis ==
    ret.op = "Analysis" =>
        LET p == input.product
            a == ret.analysis
            units == ClaimUnits(ClaimRecent(24))
        IN  /\ a.currentPrice = p.price
            /\ a.suggestedPrice = ClaimActivePrice(p, <<>>)
            /\ a.priceChange = a.suggestedPrice - p.price
            /\ p.price > 0 =>
                  /\ a.priceChangePercent.kind = "fin"
                  /\ a.priceChangePercent.num = 100 * a.priceChange
                  /\ a.priceChangePercent.den = p.price
            /\ a.demandLevel = (IF units >= 5 THEN "High"
                                ELSE IF units >= 2 THEN "Medium" ELSE "Low")
            /\ p.initialstock > 0 =>
                  a.stockLevel = (IF 10 * p.stock <= 3 * p.initialstock THEN "Low"
                                  ELSE IF 10 * p.stock <= 7 * p.initialstock THEN "Medium"
                                  ELSE "High")

\* an analysis at the boundaries: 5 recent units, a stock ratio of exactly
\* 0.3, a price the strategy changes
C11_Witness ==
    /\ ret.op = "Analysis"
    /\ ClaimUnits(ClaimRecent(24)) = 5
    /\ ret.analysis.demandLevel = "High"
    /\ input.product.stock = 6 /\ input.product.initialstock = 20
    /\ ret.analysis.stockLevel = "Low"
    /\ ret.analysis.priceChange # 0
    /\ ret.analysis.priceChangePercent.kind = "fin"

\* C12: on a product whose price is 0 the strategies and getPricingAnalysis
\* raise no error and every numeric result, priceChangePercent included, is a
\* defined zero value.
C12_ZeroPriceTotal ==
    /\ (ret.op = "Price" /\ input.product.price = 0) => ret.price = 0
    /\ (ret.op = "Analysis" /\ input.product.price = 0) =>
          /\ ret.analysis.suggestedPrice = 0
          /\ ret.analysis.priceChange = 0
          /\ ret.analysis.priceChangePercent.kind = "fin"
          /\ ret.analysis.priceChangePercent.num = 0

\* the part of C12 that the code keeps: the prices and the price change of a
\* product priced 0 are 0
C12_ZeroPriceStrategies ==
    /\ (ret.op = "Price" /\ input.product.price = 0) => ret.price = 0
    /\ (ret.op = "Analysis" /\ input.product.price = 0) =>
          /\ ret.analysis.suggestedPrice = 0
          /\ ret.analysis.priceChange = 0

-----------------------------------------------------------------------------
(* The claims about the analytics, stated over SpecAnalytics *)

\* the sum of f over the positions I of the log
RECURSIVE ClaimTotal(_, _)
ClaimTotal(f, I) ==
    IF I = {} THEN 0
    ELSE LET i == CHOOSE j \in I : TRUE
         IN  f[i] + ClaimTotal(f, I \ {i})

ClaimQuantity == [i \in DOMAIN salesLog |-> salesLog[i].quantity]

ClaimRevenue == [i \in DOMAIN salesLog |-> salesLog[i].revenue]

ClaimPrice == [i \in DOMAIN salesLog |-> salesLog[i].priceAtSale]

\* the positions of the log that hold a sale of the product
ClaimSalesOf(productId) == { i \in DOMAIN salesLog : salesLog[i].productId = productId }

\* the place of position i among the positions I, in log order
ClaimRank(I, i) == Cardinality({ j \in I : j <= i })

\* the value 0 of a quotient
ClaimIsZero(q) == q.kind = "fin" /\ q.num = 0

\* C13: calculateProductStats(productId, log) returns totalSold = the sum of
\* quantity and totalRevenue = the sum of revenue over exactly the records of
\* that product, averagePrice = totalRevenue / totalSold (0 when totalSold is
\* 0) and priceHistory = the (priceAtSale, timestamp) pairs of those records
\* in log order; with no matching record 0, 0, 0 and an empty history.
C13_ProductStats ==
    ret.op = "calculateProductStats" =>
        LET I == ClaimSalesOf(ret.productId)
            s == ret.stats
        IN  /\ s.productId = ret.productId
            /\ s.totalSold = ClaimTotal(ClaimQuantity, I)
            /\ s.totalRevenue = ClaimTotal(ClaimRevenue, I)
            /\ s.totalSold > 0 =>
                  /\ s.averagePrice.kind = "fin"
                  /\ s.averagePrice.num * s.totalSold = s.totalRevenue * s.averagePrice.den
            /\ s.totalSold = 0 => ClaimIsZero(s.averagePrice)
            /\ Len(s.priceHistory) = Cardinality(I)
            /\ \A i \in I :
                  s.priceHistory[ClaimRank(I, i)] =
                      [price |-> salesLog[i].priceAtSale,
                       timestamp |-> salesLog[i].timestamp]
            /\ I = {} =>
                  /\ s.totalSold = 0 /\ s.totalRevenue = 0
                  /\ ClaimIsZero(s.averagePrice)
                  /\ s.priceHistory = <<>>

\* the statistics of a product with sales at two prices, in a log that also
\* holds a sale of another product
C13_Witness ==
    /\ ret.op = "calculateProductStats"
    /\ ret.productId = "1"
    /\ Len(ret.stats.priceHistory) = 2
    /\ ret.stats.priceHistory[1].price # ret.stats.priceHistory[2].price
    /\ Len(salesLog) = 3
    /\ ret.stats.averagePrice.den > 1

\* the other case of C13: a product without a sale in a log with sales
C13_NoSales ==
    /\ ret.op = "calculateProductStats"
    /\ ret.productId = "9"
    /\ Len(salesLog) > 0
    /\ ret.stats.totalSold = 0 /\ ret.stats.priceHistory = <<>>

\* C14: calculateEconomicMetrics on an empty log returns 0 for totalRevenue,
\* totalTransactions, averageTransactionValue, marketVolatility and
\* priceInflation, for any product set; on a non-empty log totalRevenue is the
\* sum of the revenue of all records, totalTransactions their number and
\* averageTransactionValue = totalRevenue / totalTransactions.
C14_EconomicMetrics ==
    ret.op = "calculateEconomicMetrics" =>
        LET m == ret.metrics
        IN  /\ salesLog = <<>> =>
                  /\ m.totalRevenue = 0
                  /\ m.totalTransactions = 0
                  /\ ClaimIsZero(m.averageTransactionValue)
                  /\ m.marketVolatility.kind = "mean"
                  /\ \A k \in DOMAIN m.marketVolatility.roots :
                        ClaimIsZero(m.marketVolatility.roots[k])
                  /\ ClaimIsZero(m.priceInflation)
            /\ salesLog # <<>> =>
                  /\ m.totalRevenue = ClaimTotal(ClaimRevenue, DOMAIN salesLog)
                  /\ m.totalTransactions = Len(salesLog)
                  /\ m.averageTransactionValue.kind = "fin"
                  /\ m.averageTransactionValue.num * Len(salesLog) =
                        m.totalRevenue * m.averageTransactionValue.den

\* the metrics of a log of three sales of several units whose average
\* transaction value is no whole number of units
C14_Witness ==
    /\ ret.op = "calculateEconomicMetrics"
    /\ Len(salesLog) = 3
    /\ ret.metrics.totalTransactions = 3
    /\ ret.metrics.averageTransactionValue.den = 3
    /\ ClaimTotal(ClaimQuantity, DOMAIN salesLog) > 3

\* the other case of C14: an empty log with a product set of two products
C14_EmptyLog ==
    /\ ret.op = "calculateEconomicMetrics"
    /\ salesLog = <<>>
    /\ Len(catalog) = 2
    /\ ret.metrics.totalTransactions = 0

\* the squared change of the sale price at position i against the product's
\* previous sale in the log, 0 at the product's first sale
ClaimSquaredChange(I) ==
    [i \in DOMAIN salesLog |->
        LET earlier == { j \in I : j < i }
        IN  IF i \notin I \/ earlier = {} THEN 0
            ELSE LET prev == CHOOSE j \in earlier : \A g \in earlier : g <= j
                     d == salesLog[i].priceAtSale - salesLog[prev].priceAtSale
                 IN  d * d]

\* the radicand of the volatility of the k-th product of the product array
ClaimVolatilitySquared(k) ==
    LET I == ClaimSalesOf(IdText(catalog[k].id))
    IN  IF Cardinality(I) < 2 THEN Number(0)
        ELSE Quotient(ClaimTotal(ClaimSquaredChange(I), I), Cardinality(I) - 1)

\* C15: for a non-empty log marketVolatility is the unweighted mean over the
\* products of the product array of a volatility that is 0 for a product
\* with fewer than 2 sales and otherwise the square root of the sum of the
\* squared changes between its successive sale prices divided by n - 1;
\* products without sales count with 0 and sales of other products do not
\* contribute.  (The volatility holds the radicands of the roots it averages.)
C15_MarketVolatility ==
    (ret.op = "calculateEconomicMetrics" /\ salesLog # <<>> /\ catalog # <<>>) =>
        LET v == ret.metrics.marketVolatility
        IN  /\ v.kind = "mean"
            /\ DOMAIN v.roots = DOMAIN catalog
            /\ \A k \in DOMAIN catalog : v.roots[k] = ClaimVolatilitySquared(k)

\* two products, the first with two sales at different prices around a sale
\* of product 3, the second without a sale
C15_Witness ==
    /\ ret.op = "calculateEconomicMetrics"
    /\ Len(catalog) = 2
    /\ Len(salesLog) = 3
    /\ Cardinality(ClaimSalesOf("1")) = 2
    /\ Cardinality(ClaimSalesOf("3")) = 1
    /\ salesLog[2].productId = "3"
    /\ ret.metrics.marketVolatility.roots[1].num > 0
    /\ ret.metrics.marketVolatility.roots[2].num = 0

\* the case C15 leaves open: a non-empty log and no product gives 0 / 0
C15_NoProducts ==
    /\ ret.op = "calculateEconomicMetrics"
    /\ salesLog # <<>> /\ catalog = <<>>
    /\ ret.metrics.marketVolatility.kind = "NaN"

\* the number of records in each of the two groups of priceInflation
ClaimGroup == IF Len(salesLog) < 10 THEN Len(salesLog) ELSE 10

\* C16: for a non-empty log priceInflation = (recentAvg - oldAvg) / oldAvg x
\* 100 with oldAvg the mean priceAtSale of the first 10 records and recentAvg
\* that of the last 10 (by position, across products, overlapping in a log of
\* fewer than 20 records), and 0 when oldAvg is 0; the first 10 records at
\* 2.00 and the last 10 at 2.20 give 10.
C16_PriceInflation ==
    (ret.op = "calculateEconomicMetrics" /\ salesLog # <<>>) =>
        LET n == Len(salesLog)
            oldSum == ClaimTotal(ClaimPrice, 1..ClaimGroup)
            recentSum == ClaimTotal(ClaimPrice, (n - ClaimGroup + 1)..n)
            inflation == ret.metrics.priceInflation
        IN  /\ inflation.kind = "fin"
            /\ oldSum = 0 => inflation.num = 0
            /\ oldSum > 0 =>
                  \* both means divide by the same number of records
                  inflation.num * oldSum = (recentSum - oldSum) * 100 * inflation.den
            /\ ( /\ n >= 20
                 /\ \A i \in 1..10 : salesLog[i].priceAtSale = 20000
                 /\ \A i \in (n - 9)..n : salesLog[i].priceAtSale = 22000 )
               => inflation = Number(10)

\* the example of the specification: ten sales at 2.00, then ten at 2.20
C16_Witness ==
    /\ ret.op = "calculateEconomicMetrics"
    /\ Len(salesLog) = 20
    /\ \A i \in 1..10 : salesLog[i].priceAtSale = 20000
    /\ \A i \in 11..20 : salesLog[i].priceAtSale = 22000
    /\ ret.metrics.priceInflation = Number(10)

\* the other cases of C16: overlapping groups, and an old average of 0
C16_Overlap ==
    /\ ret.op = "calculateEconomicMetrics"
    /\ Len(salesLog) = 12
    /\ ret.metrics.priceInflation.num < 0

C16_ZeroOldAverage ==
    /\ ret.op = "calculateEconomicMetrics"
    /\ Len(salesLog) >= 10
    /\ \A i \in 1..10 : salesLog[i].priceAtSale = 0
    /\ salesLog[Len(salesLog)].priceAtSale > 0
    /\ ret.metrics.priceInflation = Number(0)

\* the position of the first sale of the product in the log
ClaimFirstSale(productId) ==
    CHOOSE i \in ClaimSalesOf(productId) : \A j \in ClaimSalesOf(productId) : i <= j

\* the product identifiers that appear in the log
ClaimSoldIds == { salesLog[i].productId : i \in DOMAIN salesLog }

\* product a ranks before product b: more units sold, or as many and sold first
ClaimBefore(a, b) ==
    LET sold(id) == ClaimTotal(ClaimQuantity, ClaimSalesOf(id))
    IN  \/ sold(a) > sold(b)
        \/ sold(a) = sold(b) /\ ClaimFirstSale(a) < ClaimFirstSale(b)

\* C17: getTopProducts returns at most 5 entries, one per distinct product
\* identifier of the log and never two for the same identifier, sorted by
\* descending totalSold with equal totals in the order of their first
\* appearance in the log; each entry equals calculateProductStats for that
\* identifier on the same log.
C17_TopProducts ==
    ret.op = "getTopProducts" =>
        LET top == ret.top
            n == Cardinality(ClaimSoldIds)
        IN  /\ Len(top) = (IF n < 5 THEN n ELSE 5)
            /\ \A k \in DOMAIN top :
                  /\ top[k].productId \in ClaimSoldIds
                  /\ top[k] = (IF ret.service = "AdminService"
                               THEN AdminService_calculateProductStats(
                                        top[k].productId, salesLog)
                               ELSE AnalyticsService_calculateProductStats(
                                        top[k].productId, salesLog))
                  /\ top[k].totalSold =
                        ClaimTotal(ClaimQuantity, ClaimSalesOf(top[k].productId))
            /\ \A k, l \in DOMAIN top :
                  k < l => ClaimBefore(top[k].productId, top[l].productId)
            /\ \A id \in ClaimSoldIds :
                  (\A k \in DOMAIN top : top[k].productId # id) =>
                      \A k \in DOMAIN top : ClaimBefore(top[k].productId, id)

\* six products sold, five returned, two of them with equal totals
C17_Witness ==
    /\ ret.op = "getTopProducts"
    /\ Cardinality(ClaimSoldIds) = 6
    /\ Len(ret.top) = 5
    /\ ret.top[1].totalSold > ret.top[2].totalSold
    /\ ret.top[2].totalSold = ret.top[3].totalSold
    /\ ClaimFirstSale(ret.top[1].productId) > ClaimFirstSale(ret.top[2].productId)

\* the age of the sale at position i and its hour offset
ClaimAge(i) == now - salesLog[i].timestamp

ClaimHour(i) == ClaimAge(i) \div 3600000

\* the positions of the log inside the window of the getSalesTrends call in ret
ClaimInWindow ==
    { i \in DOMAIN salesLog :
        ClaimAge(i) <= (IF ret.window = <<>> THEN 24 ELSE ret.window[1]) * 3600000 }

\* C18: getSalesTrends puts every record with now - timestamp <= windowHours
\* into exactly one bucket, the one of hour offset floor((now - timestamp) /
\* 1 hour); the buckets have strictly ascending hour offsets and hold the
\* summed quantity and revenue of their records; the total equals the sums
\* over the buckets; records outside the window contribute to nothing.
C18_SalesTrends ==
    ret.op = "getSalesTrends" =>
        LET hourly == ret.trends.hourly
            total == ret.trends.total
            bucketSales == [k \in DOMAIN hourly |-> hourly[k].sales]
            bucketRevenue == [k \in DOMAIN hourly |-> hourly[k].revenue]
        IN  /\ \A k, l \in DOMAIN hourly : k < l => hourly[k].hour < hourly[l].hour
            /\ { hourly[k].hour : k \in DOMAIN hourly } =
                  { ClaimHour(i) : i \in ClaimInWindow }
            /\ \A k \in DOMAIN hourly :
                  LET I == { i \in ClaimInWindow : ClaimHour(i) = hourly[k].hour }
                  IN  /\ hourly[k].sales = ClaimTotal(ClaimQuantity, I)
                      /\ hourly[k].revenue = ClaimTotal(ClaimRevenue, I)
            /\ total.sales = ClaimTotal(bucketSales, DOMAIN hourly)
            /\ total.revenue = ClaimTotal(bucketRevenue, DOMAIN hourly)
            /\ total.sales = ClaimTotal(ClaimQuantity, ClaimInWindow)
            /\ total.revenue = ClaimTotal(ClaimRevenue, ClaimInWindow)

\* the default window: two sales aged exactly 24 hours share bucket 24, a
\* sale aged 25 hours is left out
C18_Witness ==
    /\ ret.op = "getSalesTrends"
    /\ ret.window = <<>>
    /\ Len(salesLog) = 3
    /\ Cardinality(ClaimInWindow) = 2
    /\ Len(ret.trends.hourly) = 1
    /\ ret.trends.hourly[1].hour = 24
    /\ ret.trends.hourly[1].sales = 6
    /\ ret.trends.total.sales = 6

\* another case of C18: buckets 0 and 1 in ascending order from a log that
\* holds the older sale first
C18_TwoBuckets ==
    /\ ret.op = "getSalesTrends"
    /\ Len(ret.trends.hourly) = 2
    /\ ret.trends.hourly[1].hour = 0 /\ ret.trends.hourly[2].hour = 1
    /\ ClaimHour(1) = 1 /\ ClaimHour(2) = 0

-----------------------------------------------------------------------------
(* The claim about the effects of the layer, stated over SpecLayer *)

\* the operations that only compute
ClaimPureOps ==
    {"calculatePrice", "getPricingAnalysis", "calculateProductStats",
     "calculateEconomicMetrics", "getTopProducts", "getSalesTrends"}

\* C19: the only operation of the pricing and analytics layer that changes
\* external state is the catalog price write of applyDynamicPricing:
\* calculatePrice, getPricingAnalysis, calculateProductStats,
\* calculateEconomicMetrics, getTopProducts and getSalesTrends leave the
\* catalog and the sale log unchanged, a step that changes the catalog is an
\* applyDynamicPricing that changes the price of its product and nothing
\* else, and no step modifies or removes a record of the sale log.
C19_OnlyPriceWrite ==
    [][ /\ ret'.op \in ClaimPureOps => (catalog' = catalog /\ salesLog' = salesLog)
        /\ catalog' # catalog =>
              /\ ret'.op = "applyDynamicPricing"
              /\ DOMAIN catalog' = DOMAIN catalog
              /\ \A id \in DOMAIN catalog :
                    catalog'[id] =
                        IF id = ret'.product.id
                        THEN [catalog[id] EXCEPT !.price = catalog'[id].price]
                        ELSE catalog[id]
        /\ ret'.op = "applyDynamicPricing" => salesLog' = salesLog
        /\ Len(salesLog') >= Len(salesLog)
        /\ \A i \in DOMAIN salesLog : salesLog'[i] = salesLog[i] ]_vars

\* an analytics call on a log with a sale, after a price write has changed
\* the catalog
C19_Witness ==
    /\ ret.op \in {"calculateEconomicMetrics", "getTopProducts", "getSalesTrends"}
    /\ salesLog # <<>>
    /\ writes > 0
    /\ catalog # InitialCatalog

-----------------------------------------------------------------------------
(* The claim about the repricing of AdminService, stated over SpecAdmin *)

\* the identifier of the call in ret names no product of the array supplied
ClaimAbsent ==
    \A k \in DOMAIN ret.products :
        ret.productId # (IF ret.products[k].id = 1 THEN "1" ELSE "2")

C20_NotANumber ==
    /\ ret.op = "AdminService.applyDynamicPricing"
    /\ ret.productId = "x"
    /\ Len(ret.products) = 2
    /\ ret.call.returned = <<ret.products>>

C20_Found ==
    /\ ret.op = "AdminService.applyDynamicPricing"
    /\ ret.call.found /\ ret.call.wrote /\ ret.call.outcome = "ok"
    /\ catalog # ret.before

-----------------------------------------------------------------------------
(* The claims about concurrent passes, stated over SpecRace *)

\* the price a service computes from the row and the log a pass has read
ClaimPassPrice(pass) ==
    IF pass.service = "PricingService"
    THEN HybridPricing_calculatePrice(
             pass.product, pass.salesHistory, Undefined, pass.clock)
    ELSE AdminService_calculateDynamicPrice(
             pass.product, pass.salesHistory, Undefined, pass.clock)

\* C21: a write that the products table accepts is stored whatever price
\* the table holds at that time: the price stored is the one this pass
\* computed from the row it read, also when another pass has changed the
\* row since, and the caller gets what it would get without that change
\* (the new price, or its array with the new price); nothing is raised.
C21_LostUpdate ==
    (ret.op = "EndPass" /\ Accepted(ret.call)) =>
        LET pass == ret.pass
            id == pass.product.id
        IN  /\ catalog[id].price = ret.call.newPrice
            /\ ret.call.newPrice = ClaimPassPrice(pass)
            /\ ~ret.call.raised
            /\ ret.call.returned =
                   IF pass.service = "PricingService"
                   THEN Some(ret.call.newPrice)
                   ELSE Some(<<[pass.product EXCEPT !.price = ret.call.newPrice]>>)

\* two passes read the same price of a product, the first wrote another
\* price, and the write of the second, computed from the price it had read,
\* has replaced it by a different one
C21_Witness ==
    /\ ret.op = "EndPass"
    /\ Accepted(ret.call)
    /\ writes = 2
    /\ \A pass \in passes : pass.pc = "done" /\ pass.product = ret.pass.product
    /\ ret.before[ret.pass.product.id].price # ret.pass.product.price
    /\ catalog[ret.pass.product.id].price # ret.before[ret.pass.product.id].price
    /\ catalog[ret.pass.product.id].price = ClaimPassPrice(ret.pass)

-----------------------------------------------------------------------------
(* The claims about the shop, stated over SpecShop *)

\* the SalesRecord a row of sales_history is converted to
ClaimConverted(row) ==
    [productId |-> IdToString(row.product_id), quantity |-> row.quantity,
     revenue |-> row.revenue, timestamp |-> row.created_at[1],
     priceAtSale |-> row.price_at_sale]

ClaimInLog(row, log) == \E i \in DOMAIN log : log[i] = ClaimConverted(row)

C22_ReadAfterAppends ==
    \A ck \in checkouts :
        (ret.op = "checkout.log" /\ ret.outcome = "ok" /\ ck.id = ret.id) =>
            /\ \A i \in DOMAIN salesLog : ClaimInLog(salesLog[i], ck.salesHistory)
            /\ \A i \in DOMAIN ck.appended : ClaimInLog(ck.appended[i], ck.salesHistory)

\* C24: every stock is at least 0: in the products state of the shop, in
\* the products table, and in each value a checkout passes to
\* updateProductStock.
C24_StockNonNegative ==
    /\ \A i \in DOMAIN shopProducts : shopProducts[i].stock >= 0
    /\ \A id \in ProductIds : catalog[id].stock >= 0
    /\ ret.op = "checkout.stock" => ret.newStock >= 0

\* the part that holds: addToCart and removeFromCart alone keep the local
\* stocks at 0 or more
C24_LocalStockBeforeCheckout ==
    (shopLog # None /\ shopLog.started = 0) =>
        \A i \in DOMAIN shopProducts : shopProducts[i].stock >= 0

\* C28: when the first checkout of a shop, with no failed call, writes the
\* stock of a product for the last cart line of that product, the products
\* table then holds the stock loaded before the items were added minus the
\* units of that product in the cart.
C28_StockWritten ==
    (/\ ret.op = "checkout.stock"
     /\ shopLog.started = 1
     /\ shopLog.faults = 0
     /\ \A k \in DOMAIN ret.cart :
            ret.cart[k].productId = ret.item.productId => ret.cart[k] = ret.item) =>
        catalog[ret.item.productId].stock =
            StockIn(shopLog.loaded, ret.item.productId)
            - CartQuantityOf(ret.cart, ret.item.productId)

\* C29: before the first checkout the local stock of each loaded product
\* plus its units in the cart is its loaded stock; a removeFromCart of a
\* line that is in the cart takes one unit of a loaded product from the
\* line and gives it back to the stock; a removeFromCart of a line that is
\* not in the cart changes neither the cart nor the products.
C29_Conservation ==
    /\ (shopLog # None /\ shopLog.started = 0) =>
           \A i \in DOMAIN shopProducts :
               shopProducts[i].stock + CartQuantityOf(cart, shopProducts[i].id)
                   = StockIn(shopLog.loaded, shopProducts[i].id)
    /\ (ret.op = "removeFromCart"
        /\ CartIndex(ret.before.cart, ret.pid, ret.priceAtAdd) = 0) =>
           cart = ret.before.cart /\ shopProducts = ret.before.products
    /\ (ret.op = "removeFromCart"
        /\ FindById(ret.before.products, ret.pid) # <<>>
        /\ CartIndex(ret.before.cart, ret.pid, ret.priceAtAdd) # 0) =>
           /\ CartQuantityOf(cart, ret.pid) = CartQuantityOf(ret.before.cart, ret.pid) - 1
           /\ StockIn(shopProducts, ret.pid) = StockIn(ret.before.products, ret.pid) + 1

\* C30: the balance is never below 0; a checkout refused for its total
\* changes nothing; no cart is charged twice.
C30_Balance ==
    /\ balance >= 0
    /\ (ret.op = "checkout" /\ ret.refused) =>
           /\ balance = ret.before.balance /\ cart = ret.before.cart
           /\ catalog = ret.before.catalog /\ salesLog = ret.before.salesLog
           /\ shopProducts = ret.before.products
    /\ shopLog # None =>
           \A i, j \in DOMAIN shopLog.charged :
               i # j => shopLog.charged[i] # shopLog.charged[j]

\* the part that holds: a refused checkout changes nothing, and a checkout
\* that runs alone from its call to its end leaves a balance of 0 or more
C30_Refused ==
    (ret.op = "checkout" /\ ret.refused) =>
        /\ balance = ret.before.balance /\ cart = ret.before.cart
        /\ catalog = ret.before.catalog /\ salesLog = ret.before.salesLog
        /\ shopProducts = ret.before.products
        /\ cartTotal(cart) > balance

-----------------------------------------------------------------------------
(* The claims about the prices of the catalog, stated over SpecPrices *)

\* C23: from prices of 0 and more, whatever sales are recorded and whatever
\* passes of PricingService.applyDynamicPricing, applyDynamicPricingBatch
\* and AdminService.applyDynamicPricing are made, with any strategy, every
\* price in the catalog is 0 or more.
C23_PriceNonNegative ==
    \A id \in ProductIds : catalog[id].price >= 0

\* a pass of AdminService has lowered a price, and a price of 0 is in the
\* catalog
C23_Witness ==
    /\ ret.op = "AdminService.applyDynamicPricing"
    /\ Accepted(ret.call)
    /\ \E id \in ProductIds : 0 < catalog[id].price /\ catalog[id].price < ret.before[id].price
    /\ \E id \in ProductIds : catalog[id].price = 0

-----------------------------------------------------------------------------
(* The claims about the pricing of AdminService, stated over SpecAdmin *)

\* the product an AdminService.applyDynamicPricing call in ret has found
ClaimFound == FindProduct(ret.products, ret.productId)[1]

\* C25: for a product it finds, AdminService.applyDynamicPricing computes
\* the price the Hybrid strategy, the default of PricingService, returns for
\* that product and log, and passes it to updateProductPrice.
C25_SameAsHybrid ==
    (ret.op = "AdminService.applyDynamicPricing" /\ ret.call.found) =>
        /\ ret.call.newPrice =
               HybridPricing_calculatePrice(ClaimFound, salesLog, Undefined, now)
        /\ ret.call.wrote

\* what the code does instead: the price is that of calculateDynamicPrice,
\* written only when it differs by 0.02 or more
C25_OwnFormula ==
    (ret.op = "AdminService.applyDynamicPricing" /\ ret.call.found) =>
        /\ ret.call.newPrice =
               AdminService_calculateDynamicPrice(ClaimFound, salesLog, Undefined, now)
        /\ ret.call.wrote <=> Abs(ret.call.newPrice - ClaimFound.price) >= Euro(2, 100)

\* C26: whatever sales and AdminService.applyDynamicPricing passes are
\* made, each price stays between 75% and 140% of the price the product
\* had before the first pass.
C26_OriginalBounds ==
    \A id \in ProductIds :
        /\ 100 * catalog[id].price >= 75 * ShopCatalog[id].price
        /\ 100 * catalog[id].price <= 140 * ShopCatalog[id].price

\* what the code keeps: each pass leaves the price between 75% and 140% of
\* the price it found
C26_BoundsOfOnePass ==
    (ret.op = "AdminPass" /\ Accepted(ret.call)) =>
        /\ 100 * catalog[ret.id].price >= 75 * ret.before[ret.id].price
        /\ 100 * catalog[ret.id].price <= 140 * ret.before[ret.id].price

-----------------------------------------------------------------------------
(* The claims about the delivered sale log, stated over SpecHistory *)

\* the rows of each group of priceInflation, and the total price of the
\* earliest and of the most recently created rows of the table
ClaimRows == IF Len(salesLog) < 10 THEN Len(salesLog) ELSE 10

ClaimRowPrice == [i \in DOMAIN salesLog |-> salesLog[i].price_at_sale]

ClaimEarliest == ClaimTotal(ClaimRowPrice, 1..ClaimRows)

ClaimLatest ==
    ClaimTotal(ClaimRowPrice, (Len(salesLog) - ClaimRows + 1)..Len(salesLog))

\* C27: on the log that AdminService.getSalesHistory delivers, priceInflation
\* is above 0 when the mean price of the 10 most recently created rows is
\* above that of the 10 earliest, and below 0 when it is below.
C27_InflationSign ==
    (ret.op = "history" /\ ret.outcome = "ok") =>
        /\ ClaimLatest > ClaimEarliest => ret.metrics.priceInflation.num > 0
        /\ ClaimLatest < ClaimEarliest => ret.metrics.priceInflation.num < 0

\* what the code returns on that log: the change from the latest rows back
\* to the earliest, so the sign is the opposite one (0 when the latest rows
\* have a mean of 0)
C27_ReversedSign ==
    (ret.op = "history" /\ ret.outcome = "ok" /\ ClaimLatest > 0) =>
        /\ ClaimLatest > ClaimEarliest => ret.metrics.priceInflation.num < 0
        /\ ClaimLatest < ClaimEarliest => ret.metrics.priceInflation.num > 0

=============================================================================
